---- MODULE Spec2Model ----
(***************************************************************************)
(* Model of the fraud-detection agent orchestration:                       *)
(*   - ReActFraudDetectionAgent (src/src/agent/react_agent.py): the        *)
(*     Observe -> Think -> Act loop, blocking and streaming;               *)
(*   - FraudDetectionMemory (src/src/agent/memory.py) and AgentExecution   *)
(*     (src/src/models/fraud.py): the step log and the derived state;      *)
(*   - Thinker.parse_reasoning: the line-oriented KEY: value parser.       *)
(* Confidences are Python floats; they are kept here in hundredths         *)
(* (0.3 is 30, 0.7 is 70) so that every comparison of the code is an       *)
(* integer comparison.                                                     *)
(***************************************************************************)
EXTENDS Integers, Sequences, FiniteSets, TLC

VARIABLES
    agent,              \* "react" | "fixed" | "parser" | "memory": the entry point this behaviour runs
    streaming,          \* analyze_documents_stream (TRUE) or analyze_documents (FALSE)
    corpus,             \* extracted_content: [n |-> documents, typed |-> contents are strings,
                        \*   trimmed |-> len(content.strip()) of the shortest content]
    tools,              \* Actor.tools: the registered tool names
    max_iterations,     \* ReActFraudDetectionAgent.max_iterations
    confidence_threshold, \* ReActFraudDetectionAgent.confidence_threshold (hundredths)
    env,                \* what the external capabilities may do in this run
    pc,                 \* position in the running handler
    iteration,          \* local variable of the loop
    steps,              \* AgentExecution.steps
    total_steps,        \* AgentExecution.total_steps
    status,             \* AgentExecution.status
    fraud_analysis,     \* AgentExecution.fraud_analysis
    error_message,      \* AgentExecution.error_message
    iteration_count,    \* FraudDetectionMemory.iteration_count
    confidence_level,   \* FraudDetectionMemory.confidence_level
    executed_tools,     \* FraudDetectionMemory.executed_tools
    analysis_results,   \* FraudDetectionMemory.analysis_results
    observation,        \* the Observation of the current cycle
    reasoning,          \* the Reasoning of the current cycle
    action,             \* the Action of the current cycle
    events,             \* what was put on stream_queue, in order
    llm_response,       \* the text handed to parse_reasoning
    current_phase,      \* FraudDetectionMemory.current_phase
    tool_index,         \* fixed-phase agent: position in the list of tools of the phase
    all_results,        \* fixed-phase agent: validation_results + pattern_results
    fraud_indicators,   \* FraudDetectionMemory.fraud_indicators
    evidence,           \* FraudDetectionMemory.evidence
    fault,              \* what can go wrong around the stream: "none" | "delivery" | "cancel"
    consumer,           \* stream_analysis, the reader of stream_queue: "absent" | "waiting" | "stopped"
    client,             \* what stream_analysis has yielded to the HTTP client, in order
    tick,               \* parity of the keep-alives yielded so far
    streaming_logger,   \* the process-wide StreamingLogger: bundle_id and stream_callbacks
    requests,           \* the /analyze/stream requests in flight and their stream queues
    options,            \* the options dict handed to the run: its <<key, value>> items
    models,             \* the LLM objects of the agent and its parts, and the configured model names
    hist                \* history of the run (what the capabilities did)

vars == <<agent, streaming, corpus, tools, max_iterations, confidence_threshold,
          env, pc, iteration, steps, total_steps, status, fraud_analysis,
          error_message, iteration_count, confidence_level, executed_tools,
          analysis_results, observation, reasoning, action, events, llm_response,
          current_phase, tool_index, all_results, fraud_indicators, evidence,
          fault, consumer, client, tick, streaming_logger, requests, options, models,
          hist>>

(***************************************************************************)
(* Bounds of the model.                                                    *)
(***************************************************************************)
MaxIterations == 7      \* largest max_iterations a run is started with
ShortRun == 2           \* runs up to this budget meet every capability outcome
MaxLines == 3           \* longest response handed to the parser on its own
MaxCalls == 4           \* longest sequence of calls made on a memory on its own
MaxKeepAlives == 1      \* keep-alives kept in the record of what the client was sent
MaxUpdates == 2         \* preprocessing updates one request logs

(***************************************************************************)
(* Program constants.                                                      *)
(***************************************************************************)
NoneVal == "None"
\* a response whose content is not a string (a list of content blocks)
NonText == "non_text"
SYNTHESIS == "synthesize_fraud_evidence"
DefaultMaxIterations == 10
MinContentLength == 10
DefaultConfidenceThreshold == 70
StagnationIterations == 5
StagnationConfidence == 30
DefaultConfidence == 50
FallbackConfidence == 0
CriticalLevel == 80
HighLevel == 60
MediumLevel == 40

Min(a, b) == IF a <= b THEN a ELSE b

\* the elements of a list
Elems(q) == {q[i] : i \in 1..Len(q)}

\* get_all_tools(): the registry the Actor is built from
get_all_tools ==
    {"extract_data_from_document", "validate_quantity_consistency",
     "validate_weight_consistency"}

\* registries an Actor can be running with (Actor.tools is a plain dict)
Registries ==
    {get_all_tools, {SYNTHESIS}, get_all_tools \cup {SYNTHESIS}}

(***************************************************************************)
(* Text of a reasoning response: a sequence of lines.  A line is the text  *)
(* before the first colon (key), the text after it (val) and whether the   *)
(* line starts with white space (lead).  key "OTHER" is any line that      *)
(* starts with none of the four recognised prefixes.                       *)
(***************************************************************************)
Keys == {"REASONING", "RECOMMENDED_ACTION", "CONFIDENCE", "REASONING_TYPE", "OTHER"}

Line(k, v) == [lead |-> FALSE, key |-> k, val |-> v]

\* float(text): <<TRUE, hundredths>> or <<FALSE, 0>> for ValueError
ParseFloat(text) ==
    CASE text = "0.0"  -> <<TRUE, 0>>
      [] text = "0.2"  -> <<TRUE, 20>>
      [] text = "0.29" -> <<TRUE, 29>>
      [] text = "0.3"  -> <<TRUE, 30>>
      [] text = "0.4"  -> <<TRUE, 40>>
      [] text = "0.5"  -> <<TRUE, 50>>
      [] text = "0.6"  -> <<TRUE, 60>>
      [] text = "0.7"  -> <<TRUE, 70>>
      [] text = "0.8"  -> <<TRUE, 80>>
      [] text = "0.9"  -> <<TRUE, 90>>
      [] text = "1.0"  -> <<TRUE, 100>>
      [] text = "1.5"  -> <<TRUE, 150>>
      [] text = "85"   -> <<TRUE, 8500>>
      [] text = "-1"   -> <<TRUE, -100>>
      [] OTHER         -> <<FALSE, 0>>

\* str.strip() of the whole response, then split('\n'): the first line loses
\* its leading white space, the other lines keep theirs
StripSplit(text) ==
    [i \in 1..Len(text) |-> IF i = 1 THEN [text[i] EXCEPT !.lead = FALSE] ELSE text[i]]

\* line.startswith(prefix + ":")
StartsWith(line, prefix) == ~line.lead /\ line.key = prefix

\* ParseLine, but a CONFIDENCE value that is not a number leaves the
\* confidence as it was
ParseLine_keep_on_error(r, line) ==
    IF StartsWith(line, "REASONING") THEN [r EXCEPT !.content = line.val]
    ELSE IF StartsWith(line, "RECOMMENDED_ACTION")
    THEN [r EXCEPT !.recommended_action = line.val]
    ELSE IF StartsWith(line, "CONFIDENCE")
    THEN [r EXCEPT !.confidence =
              IF ParseFloat(line.val)[1] THEN ParseFloat(line.val)[2] ELSE @]
    ELSE IF StartsWith(line, "REASONING_TYPE")
    THEN [r EXCEPT !.reasoning_type = line.val]
    ELSE r

\* the body of the for loop of parse_reasoning, on one line
ParseLine(r, line) ==
    IF StartsWith(line, "REASONING") THEN [r EXCEPT !.content = line.val]
    ELSE IF StartsWith(line, "RECOMMENDED_ACTION")
    THEN [r EXCEPT !.recommended_action = line.val]
    ELSE IF StartsWith(line, "CONFIDENCE")
    THEN [r EXCEPT !.confidence =
              IF ParseFloat(line.val)[1] THEN ParseFloat(line.val)[2]
              ELSE DefaultConfidence]
    ELSE IF StartsWith(line, "REASONING_TYPE")
    THEN [r EXCEPT !.reasoning_type = line.val]
    ELSE r

RECURSIVE ParseLines(_, _, _)
ParseLines(r, lines, i) ==
    IF i > Len(lines) THEN r ELSE ParseLines(ParseLine(r, lines[i]), lines, i + 1)

\* ParseDefaults, but with the confidence of the fallback reasoning
ParseDefaults_zero ==
    [content |-> "", recommended_action |-> SYNTHESIS,
     confidence |-> FallbackConfidence, reasoning_type |-> "investigation"]

\* the defaults parse_reasoning starts from
ParseDefaults ==
    [content |-> "", recommended_action |-> SYNTHESIS,
     confidence |-> DefaultConfidence, reasoning_type |-> "investigation"]

\* Thinker.parse_reasoning; content "<response>" stands for the whole text
parse_reasoning(text) ==
    LET r == ParseLines(ParseDefaults, StripSplit(text), 1)
    IN  IF r.content = "" THEN [r EXCEPT !.content = "<response>"] ELSE r

\* the except branch of parse_reasoning: the response has no strip(), the
\* Reasoning carries the response itself as its content
parse_reasoning_failed == [ParseDefaults EXCEPT !.content = NonText]

\* the Reasoning think() returns when the capability call raises
FallbackReasoning ==
    [content |-> "Unable to generate reasoning due to error",
     recommended_action |-> SYNTHESIS,
     confidence |-> FallbackConfidence, reasoning_type |-> "fallback"]

NoReasoning ==
    [content |-> NoneVal, recommended_action |-> NoneVal,
     confidence |-> 0, reasoning_type |-> NoneVal]

(***************************************************************************)
(* The external capabilities.  A reasoning call either raises or returns   *)
(* one of the texts below; a tool call returns its normal output, with or  *)
(* without one of the fraud keywords in it, or the error text that         *)
(* BaseFraudDetectionTool._run makes of an exception.                      *)
(***************************************************************************)
ReasonOutcomes == {"raise", "scenario_b", "unparseable", "low", "threshold", "validation"}

\* responses whose CONFIDENCE lies outside 0.0 to 1.0
OutOfRangeOutcomes == {"over", "percent", "negative"}

\* responses whose CONFIDENCE is one of the risk thresholds
TierOutcomes == {"at_medium", "at_high", "at_critical"}

\* a response that names a tool and gives the confidence as written
Recommend(tool, confidence) ==
    <<Line("REASONING", "next check"),
      Line("RECOMMENDED_ACTION", tool),
      Line("CONFIDENCE", confidence),
      Line("REASONING_TYPE", "investigation")>>

ResponseText(id) ==
    CASE id = "scenario_b" ->
            <<Line("REASONING", "done"),
              Line("RECOMMENDED_ACTION", SYNTHESIS),
              Line("CONFIDENCE", "0.9"),
              Line("REASONING_TYPE", "synthesis")>>
      [] id = "unparseable" ->
            <<Line("OTHER", "I am not sure what to do next")>>
      [] id = "low" ->
            <<Line("RECOMMENDED_ACTION", "validate_quantity_consistency"),
              Line("CONFIDENCE", "0.2"),
              Line("REASONING_TYPE", "investigation")>>
      [] id = "threshold" ->
            <<Line("REASONING", "ready"),
              Line("RECOMMENDED_ACTION", "detect_timing_anomalies"),
              Line("CONFIDENCE", "0.7"),
              Line("REASONING_TYPE", "synthesis")>>
      [] id = "validation" ->
            <<Line("REASONING", "check weights"),
              Line("RECOMMENDED_ACTION", "validate_weight_consistency"),
              Line("CONFIDENCE", "0.9"),
              Line("REASONING_TYPE", "validation")>>
      [] id = "over" ->
            <<Line("REASONING", "certain"),
              Line("RECOMMENDED_ACTION", SYNTHESIS),
              Line("CONFIDENCE", "1.5"),
              Line("REASONING_TYPE", "synthesis")>>
      [] id = "percent" -> Recommend("validate_quantity_consistency", "85")
      [] id = "negative" -> Recommend("validate_quantity_consistency", "-1")
      [] id = "at_medium" -> Recommend("validate_quantity_consistency", "0.4")
      [] id = "at_high" -> Recommend("validate_weight_consistency", "0.6")
      [] id = "at_critical" -> Recommend(SYNTHESIS, "0.8")

ToolOutputs == {"out_clean", "out_keyword", "err"}

\* tool._run raises instead of returning a text: a tool that is no
\* BaseFraudDetectionTool, whose _run returns the error as a text
Raises == "raises"

\* tools of the fixed-phase agent that answer or raise
RaisingEnv == [reason |-> ReasonOutcomes, tool |-> {"out_clean", Raises}]

FullEnv == [reason |-> ReasonOutcomes, tool |-> ToolOutputs]

\* narrower behaviours of the capabilities, for runs with a long budget
NarrowEnvs ==
    { [reason |-> {"raise"}, tool |-> {"err"}],
      [reason |-> {"unparseable"}, tool |-> {"out_clean", "out_keyword"}],
      [reason |-> {"low", "raise", "unparseable"}, tool |-> {"out_clean"}],
      [reason |-> {"low", "scenario_b"}, tool |-> {"err"}],
      [reason |-> {"low", NonText}, tool |-> {"out_clean"}] }
    \cup {[reason |-> {id}, tool |-> {"out_clean"}] :
               id \in OutOfRangeOutcomes \cup TierOutcomes}

\* capabilities that answer every call the same way
SingleEnvs == {e \in NarrowEnvs : Cardinality(e.reason) = 1}

Corpora ==
    {[n |-> 0, typed |-> TRUE, trimmed |-> 0],
     [n |-> 2, typed |-> TRUE, trimmed |-> 2 * MinContentLength],
     [n |-> 2, typed |-> FALSE, trimmed |-> 0]}

\* a document whose content is not a string makes content[:1000] and
\* content.lower() raise
ContentRaises(c) == c.n > 0 /\ ~c.typed

(***************************************************************************)
(* AgentExecution and FraudDetectionMemory.                                *)
(***************************************************************************)
\* add_step, but numbering from zero
add_step_zero_based(log, step_type, tool_used, tool_output) ==
    Append(log, [step_number |-> Len(log), step_type |-> step_type,
                 tool_used |-> tool_used, tool_output |-> tool_output])

\* AgentExecution.add_step: the new log
add_step(log, step_type, tool_used, tool_output) ==
    Append(log, [step_number |-> Len(log) + 1, step_type |-> step_type,
                 tool_used |-> tool_used, tool_output |-> tool_output])

\* TrackTool, but without the membership test
TrackTool_every_call(executed, tool_used) == Append(executed, tool_used)

\* FraudDetectionMemory.add_action: the new executed_tools
TrackTool(executed, tool_used) ==
    IF tool_used \notin {executed[i] : i \in 1..Len(executed)}
    THEN Append(executed, tool_used) ELSE executed

Event(type, it, conf) ==
    [type |-> type, iteration |-> it, confidence |-> conf,
     step_number |-> 0, total_steps |-> 0]

\* await stream_queue.put(update), only when streaming
Put(q, update) == IF streaming THEN Append(q, update) ELSE q

(***************************************************************************)
(* ReActFraudDetectionAgent.                                               *)
(***************************************************************************)
\* Observer.observe: the part of the Observation copied from memory
observe ==
    [total_documents |-> corpus.n,
     fraud_indicators |-> fraud_indicators,
     evidence_collected |-> evidence,
     tools_executed |-> executed_tools,
     iteration_count |-> iteration_count,
     confidence_level |-> confidence_level]

NoObservation ==
    [total_documents |-> 0, fraud_indicators |-> <<>>,
     evidence_collected |-> <<>>, tools_executed |-> <<>>,
     iteration_count |-> 0, confidence_level |-> 0]

\* Actor.act: the tool the recommended action resolves to
ResolveTool(registry, recommended) ==
    IF recommended \notin registry THEN SYNTHESIS ELSE recommended

\* execute_tool, but the text of a failed tool is replaced by a normal output
execute_tool_hides_error(out) ==
    IF ContentRaises(corpus) THEN "Tool execution failed"
    ELSE IF out = "err" THEN "out_clean" ELSE out

\* Actor.execute_tool
execute_tool(out) ==
    IF ContentRaises(corpus) THEN "Tool execution failed" ELSE out

\* Actor.act, given what the tool returns
act(registry, r, out) ==
    LET tool_name == ResolveTool(registry, r.recommended_action)
    IN  IF tool_name \in registry
        THEN [tool_name |-> tool_name, result |-> execute_tool(out)]
        ELSE [tool_name |-> "error", result |-> "Action failed"]

NoAction == [tool_name |-> NoneVal, result |-> NoneVal]

\* update_confidence, but the stored level is left as it is
update_confidence_stale(confidence) == confidence_level

\* FraudDetectionMemory.update_confidence: the new confidence_level
update_confidence(confidence) == confidence

\* LoopGuard, but with an inclusive test
LoopGuard_inclusive(it) == it <= max_iterations

\* the test of the while loop
LoopGuard(it) == it < max_iterations

\* should_terminate, but the confidence has to exceed the threshold
should_terminate_strict(r, count) ==
    \/ r.confidence > confidence_threshold /\ r.reasoning_type = "synthesis"
    \/ count >= max_iterations
    \/ count > StagnationIterations /\ r.confidence < StagnationConfidence

\* should_terminate, but without the stagnation cutoff
should_terminate_no_stagnation(r, count) ==
    \/ r.confidence >= confidence_threshold /\ r.reasoning_type = "synthesis"
    \/ count >= max_iterations

\* should_terminate, but without the synthesis condition
should_terminate_no_synthesis(r, count) ==
    \/ count >= max_iterations
    \/ count > StagnationIterations /\ r.confidence < StagnationConfidence

\* ReActFraudDetectionAgent.should_terminate
should_terminate(r, count) ==
    \/ r.confidence >= confidence_threshold /\ r.reasoning_type = "synthesis"
    \/ count >= max_iterations
    \/ count > StagnationIterations /\ r.confidence < StagnationConfidence

\* RiskLevel, but a confidence equal to a threshold stays in the lower tier
RiskLevel_exclusive(confidence) ==
    IF confidence > CriticalLevel THEN "CRITICAL"
    ELSE IF confidence > HighLevel THEN "HIGH"
    ELSE IF confidence > MediumLevel THEN "MEDIUM"
    ELSE "LOW"

\* the if / elif chain on the confidence that both agents use
RiskLevel(confidence) ==
    IF confidence >= CriticalLevel THEN "CRITICAL"
    ELSE IF confidence >= HighLevel THEN "HIGH"
    ELSE IF confidence >= MediumLevel THEN "MEDIUM"
    ELSE "LOW"

\* ReActFraudDetectionAgent.create_fraud_analysis_result
create_fraud_analysis_result(confidence, synthesis_result) ==
    [fraud_detected |-> synthesis_result = "out_keyword",
     overall_confidence |-> confidence,
     risk_level |-> RiskLevel(confidence),
     executive_summary |-> synthesis_result]

\* ReActFraudDetectionAgent.create_fallback_analysis
create_fallback_analysis ==
    [fraud_detected |-> FALSE, overall_confidence |-> 0,
     risk_level |-> "LOW", executive_summary |-> "Analysis incomplete due to error"]

\* FraudAnalysisResult.overall_confidence: Field(..., ge=0.0, le=1.0)
ValidConfidence(confidence) == confidence >= 0 /\ confidence <= 100

\* ReActFraudDetectionAgent.generate_final_assessment, given what the
\* synthesis tool returns; a FraudAnalysisResult that fails validation
\* raises inside the try and yields the fallback analysis
generate_final_assessment(registry, confidence, out) ==
    LET result == IF SYNTHESIS \in registry THEN out
                  ELSE "Synthesis tool not available"
    IN  IF SYNTHESIS \in registry /\ ContentRaises(corpus) THEN create_fallback_analysis
        ELSE IF ~ValidConfidence(confidence) THEN create_fallback_analysis
        ELSE create_fraud_analysis_result(confidence, result)

\* complete_execution, but the result is not stored
complete_execution_without_result(result) == <<>>

\* AgentExecution.complete_execution: the new fraud_analysis
complete_execution(result) == <<result>>

NoHist ==
    [cycles |-> 0, first |-> NoneVal, all_raised |-> TRUE,
     all_unparseable |-> TRUE, all_low |-> TRUE, synth_at |-> 0,
     synthesis_calls |-> 0, calls |-> <<>>, offered |-> 0]

\* options = options or {}
NoOptions == <<>>

\* ReActFraudDetectionAgent.__init__: one ChatOpenAI object (number 0) for the
\* agent, the observer, the thinker and the actor, built for
\* settings.openai_model; VisionPDFProcessor.__init__: gpt-4o for both tasks;
\* FraudDetectionExecutor.__init__: the old agent is not loaded (no LLM, -1).
\* created counts the ChatOpenAI objects update_models has built
InitialModels ==
    [llm |-> 0, observer |-> 0, thinker |-> 0, actor |-> 0,
     openai_model |-> "gpt-4o", vision_model |-> "gpt-4o",
     summary_model |-> "gpt-4o",
     old_agent_available |-> NoneVal, old_llm |-> -1, created |-> 0]

\* StreamingLogger.__init__
NoLogger == [bundle_id |-> NoneVal, stream_callbacks |-> <<>>]

\* a run that is called directly: no HTTP request, no reader of the queue,
\* nothing that makes put raise or cancels the task
NoServing ==
    /\ fault = "none"
    /\ consumer = "absent"
    /\ client = <<>>
    /\ tick = FALSE
    /\ streaming_logger = NoLogger
    /\ requests = <<>>
    /\ options = NoOptions
    /\ models = InitialModels

InitReAct ==
    /\ agent = "react"
    /\ streaming \in BOOLEAN
    /\ corpus \in Corpora
    /\ tools \in Registries
    /\ max_iterations \in 0..MaxIterations \cup {DefaultMaxIterations}
    /\ confidence_threshold \in {DefaultConfidenceThreshold, 95}
    /\ env \in (IF max_iterations <= ShortRun THEN {FullEnv}
                ELSE IF max_iterations <= MaxIterations THEN NarrowEnvs
                ELSE SingleEnvs)
    /\ pc = "start"
    /\ iteration = 0
    /\ steps = <<>>
    /\ total_steps = 0
    /\ status = "running"
    /\ fraud_analysis = <<>>
    /\ error_message = NoneVal
    /\ iteration_count = 0
    /\ confidence_level = 0
    /\ executed_tools = <<>>
    /\ analysis_results = <<>>
    /\ observation = NoObservation
    /\ reasoning = NoReasoning
    /\ action = NoAction
    /\ events = <<>>
    /\ llm_response = <<>>
    /\ current_phase = "initial_observation"
    /\ tool_index = 0
    /\ all_results = <<>>
    /\ fraud_indicators = <<>>
    /\ evidence = <<>>
    /\ hist = NoHist
    /\ NoServing

config == <<agent, streaming, corpus, tools, max_iterations, confidence_threshold, env,
            fault, options>>

\* state of the HTTP layer (routes.py, logging_config.py), which no step of
\* an agent, of a memory or of the parser writes
serving == <<consumer, client, tick, streaming_logger, requests, models>>

\* the indicator and evidence lists, which no step of an agent run writes
collections == <<fraud_indicators, evidence>>

\* locals of the fixed-phase agent, which the ReAct agent never touches
phase_vars == <<current_phase, tool_index, all_results>>

\* AfterSleep, but the stage after the sleep is left out
AfterSleep_skipping(next) ==
    IF consumer = "absent" THEN next
    ELSE CASE next = "think" -> "thought"
           [] next = "act" -> "acted"
           [] next = "check" -> "acted"

\* the suspended coroutine: await asyncio.sleep(0.1) after an update gives
\* the event loop to the other task, the reader of the queue; a run without
\* a reader has nothing the sleep could let in
AfterSleep(next) ==
    IF consumer = "absent" THEN next
    ELSE CASE next = "think" -> "observed"
           [] next = "act" -> "thought"
           [] next = "check" -> "acted"

\* Emit, but put waits for room in a queue of two places
Emit_when_room(update, next) ==
    /\ Len(events) - Len(SelectSeq(client, LAMBDA u : u.type # "keepalive")) < 2
    /\ events' = Put(events, update)
    /\ pc' = next

\* if stream_queue: await stream_queue.put(update), inside the try block of
\* the run: a put that raises leaves the queue as it is and goes to the handler
Emit(update, next) ==
    \/ /\ events' = Put(events, update)
       /\ pc' = next
    \/ /\ streaming /\ fault = "delivery"
       /\ events' = events
       /\ pc' = "except"

\* memory.initialize_investigation and the analysis_started update
Start ==
    /\ agent = "react" /\ pc = "start"
    /\ iteration_count' = 0
    /\ confidence_level' = 0
    /\ Emit(Event("analysis_started", 0, 0), "loop")
    /\ UNCHANGED <<config, serving, collections, phase_vars, iteration, steps, total_steps, status, fraud_analysis,
                   error_message, executed_tools, analysis_results, observation,
                   reasoning, action, llm_response, hist>>

\* while iteration < self.max_iterations: iteration += 1; set_iteration_count
LoopTest ==
    /\ agent = "react" /\ pc = "loop"
    /\ IF LoopGuard(iteration)
       THEN /\ iteration' = iteration + 1
            /\ iteration_count' = iteration + 1
            /\ Emit(Event("iteration_started", iteration + 1, 0), "observe")
            /\ hist' = [hist EXCEPT !.cycles = @ + 1]
       ELSE /\ pc' = "final"
            /\ UNCHANGED <<iteration, iteration_count, events, hist>>
    /\ UNCHANGED <<config, serving, collections, phase_vars, steps, total_steps, status, fraud_analysis, error_message,
                   confidence_level, executed_tools, analysis_results, observation,
                   reasoning, action, llm_response>>

\* Fail, but the handler sits inside the loop: the next cycle goes ahead
Fail_continue(msg) ==
    /\ events' = Put(events, Event("analysis_error", iteration, 0))
    /\ status' = "failed"
    /\ error_message' = msg
    /\ pc' = "loop"

\* except Exception: analysis_error update, memory.agent_execution.fail_execution
\* a put that raises inside the handler leaves it before fail_execution
Fail(msg) ==
    \/ /\ events' = Put(events, Event("analysis_error", iteration, 0))
       /\ status' = "failed"
       /\ error_message' = msg
       /\ pc' = "returned"
    \/ /\ streaming /\ fault = "delivery"
       /\ UNCHANGED <<events, status, error_message>>
       /\ pc' = "escaped"

\* OBSERVE: observer.observe, memory.add_observation
Observe ==
    /\ agent = "react" /\ pc = "observe"
    /\ IF ContentRaises(corpus)
       THEN /\ Fail("Observation failed")
            /\ UNCHANGED <<observation, steps, total_steps>>
       ELSE /\ observation' = observe
            /\ steps' = add_step(steps, "OBSERVATION", NoneVal, NoneVal)
            /\ total_steps' = Len(steps')
            /\ Emit(Event("observation_completed", iteration, 0), AfterSleep("think"))
            /\ UNCHANGED <<status, error_message>>
    /\ UNCHANGED <<config, serving, collections, phase_vars, iteration, fraud_analysis, iteration_count, confidence_level,
                   executed_tools, analysis_results, reasoning, action, llm_response, hist>>

\* think, but a failed call yields the parser's defaults
think_defaults_on_error(outcome) ==
    IF outcome = "raise" THEN [ParseDefaults EXCEPT !.content = "<response>"]
    ELSE IF outcome = NonText THEN parse_reasoning_failed
    ELSE parse_reasoning(ResponseText(outcome))

\* Thinker.think, given the outcome of the capability call
think(outcome) ==
    IF outcome = "raise" THEN FallbackReasoning
    ELSE IF outcome = NonText THEN parse_reasoning_failed
    ELSE parse_reasoning(ResponseText(outcome))

\* THINK: thinker.think, memory.add_thought; AgentStep accepts only a
\* string as content, so add_thought raises on any other content
Think ==
    /\ agent = "react" /\ pc = "think"
    /\ \E outcome \in env.reason :
         /\ reasoning' = think(outcome)
         /\ llm_response' = IF outcome \in {"raise", NonText} THEN <<>>
                            ELSE ResponseText(outcome)
         /\ hist' = [hist EXCEPT
                !.first = IF iteration = 1 THEN outcome ELSE @,
                !.all_raised = @ /\ outcome = "raise",
                !.all_unparseable = @ /\ outcome = "unparseable",
                !.all_low = @ /\ think(outcome).confidence < StagnationConfidence]
    /\ IF reasoning'.content = NonText
       THEN /\ Fail("validation error for AgentStep")
            /\ UNCHANGED <<steps, total_steps>>
       ELSE /\ steps' = add_step(steps, "THOUGHT", NoneVal, NoneVal)
            /\ total_steps' = Len(steps')
            /\ Emit(Event("reasoning_completed", iteration, reasoning'.confidence),
                    AfterSleep("act"))
            /\ UNCHANGED <<status, error_message>>
    /\ UNCHANGED <<config, serving, collections, phase_vars, iteration, fraud_analysis,
                   iteration_count, confidence_level, executed_tools, analysis_results,
                   observation, action>>

\* ACT: actor.act, memory.add_action
Act ==
    /\ agent = "react" /\ pc = "act"
    /\ \E out \in env.tool : action' = act(tools, reasoning, out)
    /\ executed_tools' = TrackTool(executed_tools, action'.tool_name)
    /\ analysis_results' = Append(analysis_results, action'.result)
    /\ steps' = add_step(steps, "ACTION", action'.tool_name, action'.result)
    /\ total_steps' = Len(steps')
    /\ Emit(Event("action_completed", iteration, 0), AfterSleep("check"))
    /\ UNCHANGED <<config, serving, collections, phase_vars, iteration, status, fraud_analysis, error_message,
                   iteration_count, confidence_level, observation, reasoning,
                   llm_response, hist>>

\* memory.update_confidence, then should_terminate and break
Check ==
    /\ agent = "react" /\ pc = "check"
    /\ confidence_level' = update_confidence(reasoning.confidence)
    /\ hist' = [hist EXCEPT !.synth_at =
           IF /\ @ = 0
              /\ reasoning.confidence >= confidence_threshold
              /\ reasoning.reasoning_type = "synthesis"
           THEN iteration ELSE @]
    /\ IF should_terminate(reasoning, iteration_count)
       THEN Emit(Event("termination_condition_met", iteration, reasoning.confidence),
                 "final")
       ELSE /\ pc' = "loop"
            /\ UNCHANGED events
    /\ UNCHANGED <<config, serving, collections, phase_vars, iteration, steps, total_steps, status, fraud_analysis,
                   error_message, iteration_count, executed_tools, analysis_results,
                   observation, reasoning, action, llm_response>>

\* generate_final_assessment, complete_execution, the analysis_completed update
Final ==
    /\ agent = "react" /\ pc = "final"
    /\ \E out \in env.tool :
         fraud_analysis' =
             complete_execution(generate_final_assessment(tools, confidence_level, out))
    /\ hist' = [hist EXCEPT !.synthesis_calls =
           IF SYNTHESIS \in tools /\ ~ContentRaises(corpus) THEN @ + 1 ELSE @]
    /\ status' = "completed"
    /\ Emit(Event("analysis_completed", iteration, confidence_level), "returned")
    /\ UNCHANGED <<config, serving, collections, phase_vars, iteration, steps, total_steps, error_message, iteration_count,
                   confidence_level, executed_tools, analysis_results, observation,
                   reasoning, action, llm_response>>

NextReAct == Start \/ LoopTest \/ Observe \/ Think \/ Act \/ Check \/ Final


(***************************************************************************)
(* FraudDetectionAgent (src/src/agent/core.py): the fixed five-phase       *)
(* agent.  m is the memory and the queue an operation works on:            *)
(* s the step log, ev the queue, ex executed_tools, ar analysis_results.   *)
(***************************************************************************)
validation_tools ==
    <<"validate_quantity_consistency", "validate_weight_consistency",
      "validate_entity_consistency", "validate_product_descriptions",
      "validate_value_consistency", "validate_geographic_consistency">>

pattern_tools ==
    <<"detect_product_substitution", "detect_origin_manipulation",
      "detect_entity_variations", "validate_unit_calculations",
      "detect_round_number_patterns">>

Mem == [s |-> steps, ev |-> events, ex |-> executed_tools, ar |-> analysis_results]

\* FraudDetectionMemory.add_step (add_observation, add_thought)
MemAddStep(m, step_type) ==
    [m EXCEPT !.s = add_step(@, step_type, NoneVal, NoneVal)]

\* FraudDetectionMemory.add_action
MemAddAction(m, tool_used, tool_output) ==
    [m EXCEPT !.ex = TrackTool(@, tool_used),
              !.ar = Append(@, tool_output),
              !.s = add_step(@, "ACTION", tool_used, tool_output)]

\* FraudDetectionMemory.add_analysis_result
MemAddAnalysisResult(m, result) == [m EXCEPT !.ar = Append(@, result)]

\* FraudDetectionAgent._send_stream_update
send_stream_update(m, update) == [m EXCEPT !.ev = Put(@, update)]

StepEvent(log) ==
    [type |-> "step_completed", iteration |-> 0, confidence |-> 0,
     step_number |-> log[Len(log)].step_number, total_steps |-> Len(log)]

\* FraudDetectionAgent._send_step_update
send_step_update(m, step_type) ==
    LET m1 == MemAddStep(m, step_type) IN send_stream_update(m1, StepEvent(m1.s))

\* FraudDetectionAgent._send_action_step_update
send_action_step_update(m, tool_used, tool_output) ==
    LET m1 == MemAddAction(m, tool_used, tool_output)
    IN  send_stream_update(m1, StepEvent(m1.s))

\* FraudDetectionAgent._send_phase_update
send_phase_update(m, phase_number) ==
    send_stream_update(m, Event("phase_started", phase_number, 0))

RECURSIVE ToolProgress(_, _, _)
\* the tool_progress updates of _extract_document_data_stream, one per document
ToolProgress(m, i, n) ==
    IF i > n THEN m
    ELSE ToolProgress(send_stream_update(m, Event("tool_progress", i, 0)), i + 1, n)

\* the assignments every action of the fixed-phase agent makes from m
SetMem(m) ==
    /\ steps' = m.s
    /\ total_steps' = Len(m.s)
    /\ events' = m.ev
    /\ executed_tools' = m.ex
    /\ analysis_results' = m.ar

react_vars == <<iteration, iteration_count, confidence_level, observation, reasoning,
                action, llm_response, hist>>

InitFixed ==
    /\ agent = "fixed"
    /\ streaming \in BOOLEAN
    /\ corpus \in {c \in Corpora : c.typed}
    /\ tools \in Registries
    /\ max_iterations = DefaultMaxIterations
    /\ confidence_threshold = DefaultConfidenceThreshold
    /\ env = FullEnv
    /\ pc = "phase1"
    /\ iteration = 0
    /\ steps = <<>>
    /\ total_steps = 0
    /\ status = "running"
    /\ fraud_analysis = <<>>
    /\ error_message = NoneVal
    /\ iteration_count = 0
    /\ confidence_level = 0
    /\ executed_tools = <<>>
    /\ analysis_results = <<>>
    /\ observation = NoObservation
    /\ reasoning = NoReasoning
    /\ action = NoAction
    /\ events = <<>>
    /\ llm_response = <<>>
    /\ current_phase = "initial_observation"
    /\ tool_index = 0
    /\ all_results = <<>>
    /\ fraud_indicators = <<>>
    /\ evidence = <<>>
    /\ hist = NoHist
    /\ NoServing

\* Phase 1: _conduct_initial_observation, memory.add_observation
InitialObservation ==
    /\ agent = "fixed" /\ pc = "phase1"
    /\ current_phase' = "initial_observation"
    /\ IF streaming
       THEN LET m0 == send_stream_update(Mem, Event("analysis_started", 0, 0))
                m1 == send_phase_update(m0, 1)
                m2 == send_step_update(m1, "THOUGHT")
                m3 == MemAddStep(m2, "OBSERVATION")
                m4 == send_step_update(m3, "OBSERVATION")
                m5 == send_step_update(m4, "THOUGHT")
            IN  SetMem(m5)
       ELSE SetMem(MemAddStep(Mem, "OBSERVATION"))
    /\ pc' = "phase2"
    /\ UNCHANGED <<config, serving, collections, react_vars, status, fraud_analysis, error_message,
                   tool_index, all_results>>

\* FixedFail, but the phases go on after the failure
FixedFail_continue(m, msg) ==
    /\ SetMem(send_stream_update(m, Event("analysis_error", 0, 0)))
    /\ status' = "failed"
    /\ error_message' = msg
    /\ pc' = "phase3"

\* except Exception of analyze_documents / analyze_documents_stream
FixedFail(m, msg) ==
    /\ SetMem(send_stream_update(m, Event("analysis_error", 0, 0)))
    /\ status' = "failed"
    /\ error_message' = msg
    /\ pc' = "returned"

\* Phase 2: _extract_document_data / _extract_document_data_stream
DocumentExtraction ==
    /\ agent = "fixed" /\ pc = "phase2"
    /\ current_phase' = "document_extraction"
    /\ LET tool == "extract_data_from_document"
           m0 == IF streaming
                 THEN send_step_update(send_step_update(send_phase_update(Mem, 2),
                                                        "THOUGHT"), "THOUGHT")
                 ELSE MemAddStep(Mem, "THOUGHT")
       IN  IF tool \notin tools
           THEN /\ FixedFail(m0, "StopIteration")
           ELSE \E out \in env.tool :
                  LET m1 == send_action_step_update(m0, tool, "Processing...")
                      m2 == ToolProgress(m1, 1, corpus.n)
                      m3 == send_action_step_update(m2, tool, out)
                      m4 == send_step_update(m3, "THOUGHT")
                  IN  IF out = Raises
                      THEN FixedFail(IF streaming THEN m2 ELSE m0, "tool raised")
                      ELSE /\ SetMem(IF streaming THEN m4 ELSE MemAddAction(m0, tool, out))
                           /\ pc' = "phase3"
                           /\ UNCHANGED <<status, error_message>>
    /\ UNCHANGED <<config, serving, collections, react_vars, fraud_analysis, tool_index, all_results>>

\* the opening thought of phase 3 or phase 4
PhaseStart(m, phase_number) ==
    IF streaming
    THEN send_step_update(send_phase_update(m, phase_number), "THOUGHT")
    ELSE MemAddStep(m, "THOUGHT")

\* one pass of the for loop of _conduct_systematic_validation(_stream)
validate_one(m, tool_name, i, out) ==
    LET m0 == send_stream_update(m, Event("tool_progress", i, 0))
    IN  IF tool_name \notin tools
        THEN \* next() raises StopIteration, caught by the loop's except
             IF streaming THEN send_step_update(m0, "OBSERVATION")
             ELSE MemAddStep(m0, "OBSERVATION")
        ELSE IF out = Raises
        THEN \* tool._run raises after the thought, caught by the loop's except
             IF streaming
             THEN send_step_update(send_step_update(m0, "THOUGHT"), "OBSERVATION")
             ELSE MemAddStep(MemAddStep(m0, "THOUGHT"), "OBSERVATION")
        ELSE IF streaming
             THEN MemAddAnalysisResult(
                      send_action_step_update(send_step_update(m0, "THOUGHT"),
                                              tool_name, out), out)
             ELSE MemAddAnalysisResult(
                      MemAddAction(MemAddStep(m0, "THOUGHT"), tool_name, out), out)

\* one pass of the for loop of _conduct_pattern_detection(_stream)
detect_one(m, tool_name, i, out) ==
    LET m0 == send_stream_update(m, Event("tool_progress", i, 0))
    IN  IF tool_name \notin tools
        THEN m0     \* if not tool: continue
        ELSE IF out = Raises
        THEN IF streaming
             THEN send_step_update(send_step_update(m0, "THOUGHT"), "OBSERVATION")
             ELSE MemAddStep(MemAddStep(m0, "THOUGHT"), "OBSERVATION")
        ELSE IF streaming
             THEN MemAddAnalysisResult(
                      send_action_step_update(send_step_update(m0, "THOUGHT"),
                                              tool_name, out), out)
             ELSE MemAddAnalysisResult(
                      MemAddAction(MemAddStep(m0, "THOUGHT"), tool_name, out), out)

\* Phase 3: _conduct_systematic_validation, up to the loop
SystematicValidation ==
    /\ agent = "fixed" /\ pc = "phase3"
    /\ current_phase' = "systematic_validation"
    /\ SetMem(PhaseStart(Mem, 3))
    /\ tool_index' = 1
    /\ pc' = "phase3_tool"
    /\ UNCHANGED <<config, serving, collections, react_vars, status, fraud_analysis, error_message, all_results>>

\* ValidationTool, but the except block stands around the loop: a tool that
\* is missing or raises ends the phase and the run
ValidationTool_aborting ==
    /\ agent = "fixed" /\ pc = "phase3_tool"
    /\ IF tool_index <= Len(validation_tools)
       THEN \E out \in env.tool :
              IF validation_tools[tool_index] \notin tools \/ out = Raises
              THEN /\ FixedFail(Mem, "tool failed")
                   /\ UNCHANGED <<tool_index, all_results>>
              ELSE /\ SetMem(validate_one(Mem, validation_tools[tool_index], tool_index, out))
                   /\ all_results' = Append(all_results, out)
                   /\ tool_index' = tool_index + 1
                   /\ pc' = "phase3_tool"
                   /\ UNCHANGED <<status, error_message>>
       ELSE /\ pc' = "phase4"
            /\ UNCHANGED <<steps, total_steps, events, executed_tools, analysis_results,
                           tool_index, all_results, status, error_message>>
    /\ UNCHANGED <<config, serving, collections, react_vars, fraud_analysis, current_phase>>

\* Phase 3: the loop over validation_tools
ValidationTool ==
    /\ agent = "fixed" /\ pc = "phase3_tool"
    /\ IF tool_index <= Len(validation_tools)
       THEN /\ \E out \in env.tool :
                 /\ SetMem(validate_one(Mem, validation_tools[tool_index], tool_index, out))
                 /\ all_results' = IF validation_tools[tool_index] \in tools /\ out # Raises
                                   THEN Append(all_results, out) ELSE all_results
            /\ tool_index' = tool_index + 1
            /\ pc' = "phase3_tool"
       ELSE /\ pc' = "phase4"
            /\ UNCHANGED <<steps, total_steps, events, executed_tools, analysis_results,
                           tool_index, all_results>>
    /\ UNCHANGED <<config, serving, collections, react_vars, status, fraud_analysis, error_message, current_phase>>

\* Phase 4: _conduct_pattern_detection, up to the loop
PatternDetection ==
    /\ agent = "fixed" /\ pc = "phase4"
    /\ current_phase' = "pattern_detection"
    /\ SetMem(PhaseStart(Mem, 4))
    /\ tool_index' = 1
    /\ pc' = "phase4_tool"
    /\ UNCHANGED <<config, serving, collections, react_vars, status, fraud_analysis, error_message, all_results>>

\* Phase 4: the loop over pattern_tools
PatternTool ==
    /\ agent = "fixed" /\ pc = "phase4_tool"
    /\ IF tool_index <= Len(pattern_tools)
       THEN /\ \E out \in env.tool :
                 /\ SetMem(detect_one(Mem, pattern_tools[tool_index], tool_index, out))
                 /\ all_results' = IF pattern_tools[tool_index] \in tools /\ out # Raises
                                   THEN Append(all_results, out) ELSE all_results
            /\ tool_index' = tool_index + 1
            /\ pc' = "phase4_tool"
       ELSE /\ pc' = "phase5"
            /\ UNCHANGED <<steps, total_steps, events, executed_tools, analysis_results,
                           tool_index, all_results>>
    /\ UNCHANGED <<config, serving, collections, react_vars, status, fraud_analysis, error_message, current_phase>>

\* the results that hold one of the fraud keywords
Positive(results) == {i \in 1..Len(results) : results[i] = "out_keyword"}

\* FraudDetectionAgent._parse_synthesis_result
parse_synthesis_result(synthesis_result, results) ==
    LET positive_results == Cardinality(Positive(results))
        overall_confidence ==
            IF Len(results) > 0
            THEN Min((positive_results * 100) \div Len(results), 100) ELSE 0
    IN  [fraud_detected |-> positive_results > 0,
         overall_confidence |-> overall_confidence,
         risk_level |-> RiskLevel(overall_confidence),
         executive_summary |-> synthesis_result]

\* FraudDetectionAgent._create_fallback_analysis
fixed_fallback_analysis ==
    [fraud_detected |-> FALSE, overall_confidence |-> 0,
     risk_level |-> "LOW", executive_summary |-> "Analysis completed with errors"]

\* Phase 5: _synthesize_evidence(_stream), complete_execution
EvidenceSynthesis ==
    /\ agent = "fixed" /\ pc = "phase5"
    /\ current_phase' = "evidence_synthesis"
    /\ LET m0 == PhaseStart(Mem, 5)
           done(m) == send_stream_update(m,
                          [Event("analysis_completed", 0, 0) EXCEPT
                               !.total_steps = Len(m.s)])
       IN  IF SYNTHESIS \notin tools
           THEN /\ SetMem(done(IF streaming THEN send_step_update(m0, "OBSERVATION")
                               ELSE m0))
                /\ fraud_analysis' = complete_execution(fixed_fallback_analysis)
           ELSE \E out \in env.tool :
                IF out = Raises
                THEN /\ SetMem(done(
                            IF streaming
                            THEN send_step_update(
                                     send_action_step_update(m0, SYNTHESIS, "Processing..."),
                                     "OBSERVATION")
                            ELSE m0))
                     /\ fraud_analysis' = complete_execution(fixed_fallback_analysis)
                ELSE /\ SetMem(done(
                            IF streaming
                            THEN send_action_step_update(
                                     send_action_step_update(m0, SYNTHESIS, "Processing..."),
                                     SYNTHESIS, out)
                            ELSE MemAddAction(m0, SYNTHESIS, out)))
                     /\ fraud_analysis' =
                            complete_execution(parse_synthesis_result(out, all_results))
    /\ status' = "completed"
    /\ pc' = "returned"
    /\ UNCHANGED <<config, serving, collections, react_vars, error_message, tool_index, all_results>>

NextFixed ==
    \/ InitialObservation \/ DocumentExtraction
    \/ SystematicValidation \/ ValidationTool
    \/ PatternDetection \/ PatternTool
    \/ EvidenceSynthesis

(***************************************************************************)
(* Thinker.parse_reasoning on its own: every response of up to MaxLines    *)
(* lines over the lines below.                                             *)
(***************************************************************************)
KeyValues ==
    {<<"REASONING", "done">>, <<"REASONING", "">>,
     <<"RECOMMENDED_ACTION", "validate_weight_consistency">>,
     <<"RECOMMENDED_ACTION", "">>,
     <<"CONFIDENCE", "0.9">>, <<"CONFIDENCE", "1.5">>,
     <<"CONFIDENCE", "high">>, <<"CONFIDENCE", "">>,
     <<"REASONING_TYPE", "synthesis">>, <<"REASONING_TYPE", "conclusion">>,
     <<"OTHER", "I am not sure what to do next">>}

Lines == {[lead |-> l, key |-> kv[1], val |-> kv[2]] : l \in BOOLEAN, kv \in KeyValues}

Texts == UNION {[1..n -> Lines] : n \in 0..MaxLines}

InitParser ==
    /\ agent = "parser"
    /\ llm_response \in Texts
    /\ pc = "parse"
    /\ streaming = FALSE
    /\ corpus = [n |-> 0, typed |-> TRUE, trimmed |-> 0]
    /\ tools = get_all_tools
    /\ max_iterations = DefaultMaxIterations
    /\ confidence_threshold = DefaultConfidenceThreshold
    /\ env = FullEnv
    /\ iteration = 0
    /\ steps = <<>>
    /\ total_steps = 0
    /\ status = "running"
    /\ fraud_analysis = <<>>
    /\ error_message = NoneVal
    /\ iteration_count = 0
    /\ confidence_level = 0
    /\ executed_tools = <<>>
    /\ analysis_results = <<>>
    /\ observation = NoObservation
    /\ reasoning = NoReasoning
    /\ action = NoAction
    /\ events = <<>>
    /\ current_phase = "initial_observation"
    /\ tool_index = 0
    /\ all_results = <<>>
    /\ fraud_indicators = <<>>
    /\ evidence = <<>>
    /\ hist = NoHist
    /\ NoServing

\* return self.parse_reasoning(llm_response.content)
ParseResponse ==
    /\ agent = "parser" /\ pc = "parse"
    /\ reasoning' = parse_reasoning(llm_response)
    /\ pc' = "parsed"
    /\ UNCHANGED <<config, serving, collections, phase_vars, iteration, steps, total_steps, status,
                   fraud_analysis, error_message, iteration_count, confidence_level,
                   executed_tools, analysis_results, observation, action, events,
                   llm_response, hist>>

NextParser == ParseResponse

SpecParser == InitParser /\ [][NextParser]_vars

(***************************************************************************)
(* FraudDetectionMemory on its own: any sequence of up to MaxCalls calls   *)
(* of add_fraud_indicator, add_evidence, add_action and Observer.observe   *)
(* on one memory.  hist.calls is the sequence of the calls made.           *)
(***************************************************************************)
Strings == {"invoice total differs", "weight differs", "round unit price"}

Elements(list) == {list[i] : i \in 1..Len(list)}

\* FraudDetectionMemory.add_fraud_indicator: the new fraud_indicators
add_fraud_indicator(list, indicator) ==
    IF indicator \notin Elements(list) THEN Append(list, indicator) ELSE list

\* add_evidence, but without the membership test
add_evidence_unchecked(list, evidence_item) == Append(list, evidence_item)

\* FraudDetectionMemory.add_evidence: the new evidence
add_evidence(list, evidence_item) ==
    IF evidence_item \notin Elements(list) THEN Append(list, evidence_item) ELSE list

\* the fields of the memory and of its AgentExecution that observe is
\* handed
memory ==
    [steps |-> steps, total_steps |-> total_steps, status |-> status,
     iteration_count |-> iteration_count, confidence_level |-> confidence_level,
     fraud_indicators |-> fraud_indicators, evidence |-> evidence,
     executed_tools |-> executed_tools]

\* observe_memory, but observe also logs its own OBSERVATION step
observe_memory_logs_step(m) ==
    [m EXCEPT !.steps = add_step(@, "OBSERVATION", NoneVal, NoneVal),
              !.total_steps = @ + 1]

\* the memory after Observer.observe: observe only calls the get_ methods,
\* which hand out copies or numbers
observe_memory(m) == m

Called(op, arg) == [hist EXCEPT !.calls = Append(@, [op |-> op, arg |-> arg])]

InitMemory ==
    /\ agent = "memory"
    /\ pc = "idle"
    /\ corpus \in Corpora
    /\ streaming = FALSE
    /\ tools = get_all_tools
    /\ max_iterations = DefaultMaxIterations
    /\ confidence_threshold = DefaultConfidenceThreshold
    /\ env = FullEnv
    /\ iteration = 0
    /\ steps = <<>>
    /\ total_steps = 0
    /\ status = "running"
    /\ fraud_analysis = <<>>
    /\ error_message = NoneVal
    /\ iteration_count = 0
    /\ confidence_level = 0
    /\ executed_tools = <<>>
    /\ analysis_results = <<>>
    /\ observation = NoObservation
    /\ reasoning = NoReasoning
    /\ action = NoAction
    /\ events = <<>>
    /\ llm_response = <<>>
    /\ current_phase = "initial_observation"
    /\ tool_index = 0
    /\ all_results = <<>>
    /\ fraud_indicators = <<>>
    /\ evidence = <<>>
    /\ hist = NoHist
    /\ NoServing

\* what no call on a memory on its own writes
memory_frame ==
    <<config, serving, phase_vars, pc, iteration, status, fraud_analysis, error_message,
      iteration_count, confidence_level, reasoning, action, events, llm_response>>

\* memory.add_fraud_indicator(indicator)
AddFraudIndicator ==
    /\ agent = "memory" /\ Len(hist.calls) < MaxCalls
    /\ \E indicator \in Strings :
         /\ fraud_indicators' = add_fraud_indicator(fraud_indicators, indicator)
         /\ hist' = Called("add_fraud_indicator", indicator)
    /\ UNCHANGED <<memory_frame, evidence, steps, total_steps, executed_tools,
                   analysis_results, observation>>

\* memory.add_evidence(evidence_item)
AddEvidence ==
    /\ agent = "memory" /\ Len(hist.calls) < MaxCalls
    /\ \E evidence_item \in Strings :
         /\ evidence' = add_evidence(evidence, evidence_item)
         /\ hist' = Called("add_evidence", evidence_item)
    /\ UNCHANGED <<memory_frame, fraud_indicators, steps, total_steps, executed_tools,
                   analysis_results, observation>>

\* memory.add_action(content, tool_used, tool_input, tool_output)
AddAction ==
    /\ agent = "memory" /\ Len(hist.calls) < MaxCalls
    /\ \E tool_used \in {"validate_quantity_consistency", SYNTHESIS} :
         /\ executed_tools' = TrackTool(executed_tools, tool_used)
         /\ analysis_results' = Append(analysis_results, "out_clean")
         /\ steps' = add_step(steps, "ACTION", tool_used, "out_clean")
         /\ total_steps' = Len(steps')
         /\ hist' = Called("add_action", tool_used)
    /\ UNCHANGED <<memory_frame, collections, observation>>

\* observer.observe(extracted_content, memory), returning or raising
CallObserve ==
    /\ agent = "memory" /\ Len(hist.calls) < MaxCalls
    /\ IF ContentRaises(corpus)
       THEN /\ observation' = observation
            /\ hist' = Called("observe", "raised")
       ELSE /\ observation' = observe
            /\ hist' = Called("observe", "returned")
    /\ LET m == observe_memory(memory)
       IN  /\ steps' = m.steps
           /\ total_steps' = m.total_steps
           /\ status' = m.status
           /\ iteration_count' = m.iteration_count
           /\ confidence_level' = m.confidence_level
           /\ fraud_indicators' = m.fraud_indicators
           /\ evidence' = m.evidence
           /\ executed_tools' = m.executed_tools
    /\ UNCHANGED <<config, serving, phase_vars, pc, iteration, fraud_analysis, error_message,
                   reasoning, action, events, llm_response, analysis_results>>

NextMemory == AddFraudIndicator \/ AddEvidence \/ AddAction \/ CallObserve

SpecMemory == InitMemory /\ [][NextMemory]_vars

\* ---------------------------------------------------------------------
\* Readers of a memory: what a caller holds after a read operation
\* ---------------------------------------------------------------------

\* the read operations of FraudDetectionMemory that hand out an object
Getters ==
    {"get_fraud_indicators", "get_evidence", "get_executed_tools",
     "get_analysis_results", "get_current_state", "get_agent_execution"}

\* the lists of the memory reachable from what a read operation returns
Handed(getter) ==
    CASE getter = "get_fraud_indicators" -> {"fraud_indicators"}
      [] getter = "get_evidence" -> {"evidence"}
      [] getter = "get_executed_tools" -> {"executed_tools"}
      [] getter = "get_analysis_results" -> {"analysis_results"}
      [] getter = "get_current_state" ->
            {"fraud_indicators", "evidence", "executed_tools", "analysis_results"}
      [] getter = "get_agent_execution" -> {"steps"}

\* get_fraud_indicators, get_evidence, get_executed_tools and
\* get_analysis_results return list.copy(); get_current_state builds a dict
\* around the lists of the memory themselves, and get_agent_execution (which
\* is also what analyze_documents returns) returns self.agent_execution
ReturnsCopy(getter) ==
    getter \in {"get_fraud_indicators", "get_evidence", "get_executed_tools",
                "get_analysis_results"}

\* the memory's own list after the caller appended a value to the list it
\* was handed
AfterAppend(getter, own, value) ==
    IF ReturnsCopy(getter) THEN own ELSE Append(own, value)

\* a caller reads with getter and appends to the list it reaches under field
MutateReturned ==
    /\ agent = "memory" /\ Len(hist.calls) < MaxCalls
    /\ \E getter \in Getters : \E field \in Handed(getter) :
         LET After(name, own, value) ==
                 IF field = name THEN AfterAppend(getter, own, value) ELSE own
         IN  /\ fraud_indicators' = After("fraud_indicators", fraud_indicators, "appended")
             /\ evidence' = After("evidence", evidence, "appended")
             /\ executed_tools' = After("executed_tools", executed_tools, "appended")
             /\ analysis_results' = After("analysis_results", analysis_results, "appended")
             /\ steps' = After("steps", steps,
                               [step_number |-> 0, step_type |-> "ACTION",
                                tool_used |-> NoneVal, tool_output |-> "appended"])
             /\ hist' = Called("mutate", getter)
    /\ UNCHANGED <<memory_frame, total_steps, observation>>

NextReaders == NextMemory \/ MutateReturned

SpecReaders == InitMemory /\ [][NextReaders]_vars

\* get_all_tools with the tools of its TODO list added back
every_tool ==
    get_all_tools \cup Elems(validation_tools) \cup Elems(pattern_tools) \cup {SYNTHESIS}

\* the fixed-phase agent on its own, with tools that can raise
InitFixedRaising ==
    /\ agent = "fixed"
    /\ streaming \in BOOLEAN
    /\ corpus \in {c \in Corpora : c.typed}
    /\ tools \in Registries \cup {every_tool}
    /\ max_iterations = DefaultMaxIterations
    /\ confidence_threshold = DefaultConfidenceThreshold
    /\ env = RaisingEnv
    /\ pc = "phase1"
    /\ iteration = 0
    /\ steps = <<>>
    /\ total_steps = 0
    /\ status = "running"
    /\ fraud_analysis = <<>>
    /\ error_message = NoneVal
    /\ iteration_count = 0
    /\ confidence_level = 0
    /\ executed_tools = <<>>
    /\ analysis_results = <<>>
    /\ observation = NoObservation
    /\ reasoning = NoReasoning
    /\ action = NoAction
    /\ events = <<>>
    /\ llm_response = <<>>
    /\ current_phase = "initial_observation"
    /\ tool_index = 0
    /\ all_results = <<>>
    /\ fraud_indicators = <<>>
    /\ evidence = <<>>
    /\ hist = NoHist
    /\ NoServing

SpecFixed == InitFixedRaising /\ [][NextFixed]_vars

Init == InitReAct \/ InitFixed

Next == NextReAct \/ NextFixed

Spec == Init /\ [][Next]_vars

\* a handler that can take its next step takes it
FairSpec == Spec /\ WF_vars(Next)

(***************************************************************************)
(* The streaming gateway: POST /analyze/stream (src/src/api/routes.py)     *)
(* creates the queue, starts execute_react_fraud_analysis_stream as a task *)
(* and reads the queue in stream_analysis.  Both are coroutines of one     *)
(* event loop: the reader runs only while the task is suspended in         *)
(* asyncio.sleep or over, because the capability and tool calls of the     *)
(* task are synchronous and put on a queue without maxsize never suspends. *)
(***************************************************************************)
\* _validate_extracted_content raises: no document, or a content that is
\* empty, shorter than ten characters or has no strip()
Rejected(c) == c.n = 0 \/ ~c.typed \/ c.trimmed < MinContentLength

TerminalTypes == {"analysis_completed", "analysis_error"}

KeepAliveLine == Event("keepalive", 0, 0)

\* the updates among what the client was sent
Updates(cl) == SelectSeq(cl, LAMBDA u : u.type # "keepalive")

KeepAlives(cl) == Len(cl) - Len(Updates(cl))

\* stream_queue.get(), but the newest update comes out first
stream_queue_get_newest(q, taken) == q[Len(q)]

\* stream_queue.get(): the oldest update that was not taken yet
stream_queue_get(q, taken) == q[taken + 1]

\* the analysis task does not hold the event loop
LoopFree == pc \in {"observed", "thought", "acted", "returned", "raised", "cancelled"}

\* what the task of one request leaves alone outside pc, events and hist
execution ==
    <<iteration, steps, total_steps, status, fraud_analysis, error_message,
      iteration_count, confidence_level, executed_tools, analysis_results,
      observation, reasoning, action, llm_response>>

\* capabilities of a served run: low and sufficient confidence, a response
\* whose content is no string, tools that answer or fail
GatewayEnvs ==
    {[reason |-> {"low", "threshold", NonText}, tool |-> {"out_clean", "err"}]}

InitGateway ==
    /\ agent = "react"
    /\ streaming = TRUE
    /\ corpus \in Corpora
    /\ tools = get_all_tools
    /\ max_iterations \in 0..ShortRun
    /\ confidence_threshold = DefaultConfidenceThreshold
    /\ env \in GatewayEnvs
    /\ fault \in {"none", "delivery", "cancel"}
    /\ pc = "validate"
    /\ iteration = 0
    /\ steps = <<>>
    /\ total_steps = 0
    /\ status = "running"
    /\ fraud_analysis = <<>>
    /\ error_message = NoneVal
    /\ iteration_count = 0
    /\ confidence_level = 0
    /\ executed_tools = <<>>
    /\ analysis_results = <<>>
    /\ observation = NoObservation
    /\ reasoning = NoReasoning
    /\ action = NoAction
    /\ events = <<>>
    /\ llm_response = <<>>
    /\ current_phase = "initial_observation"
    /\ tool_index = 0
    /\ all_results = <<>>
    /\ fraud_indicators = <<>>
    /\ evidence = <<>>
    /\ consumer = "waiting"
    /\ client = <<>>
    /\ tick = FALSE
    /\ streaming_logger = NoLogger
    /\ requests = <<>>
    /\ options = NoOptions
    /\ models = InitialModels
    /\ hist = NoHist

\* Validate, but every corpus is handed to the agent
Validate_unchecked ==
    /\ agent = "react" /\ pc = "validate"
    /\ pc' = "start"
    /\ UNCHANGED <<config, serving, collections, phase_vars, execution, events, hist>>

\* execute_react_fraud_analysis and execute_react_fraud_analysis_stream:
\* _validate_extracted_content, then the agent
Validate ==
    /\ agent = "react" /\ pc = "validate"
    /\ pc' = IF Rejected(corpus) THEN "escaped" ELSE "start"
    /\ UNCHANGED <<config, serving, collections, phase_vars, execution, events, hist>>

\* execute_react_fraud_analysis_stream, except Exception: the update of
\* type "error", then raise AgentExecutionError
ExecutorError ==
    /\ agent = "react" /\ pc = "escaped"
    /\ \/ events' = Put(events, Event("error", 0, 0))
       \/ fault = "delivery" /\ events' = events
    /\ pc' = "raised"
    /\ UNCHANGED <<config, serving, collections, phase_vars, execution, hist>>

\* analyze_documents_stream, except Exception, entered from a put that raised
Except ==
    /\ agent = "react" /\ pc = "except"
    /\ Fail("delivery failed")
    /\ UNCHANGED <<config, serving, collections, phase_vars, iteration, steps, total_steps,
                   fraud_analysis, iteration_count, confidence_level, executed_tools,
                   analysis_results, observation, reasoning, action, llm_response, hist>>

\* asyncio.sleep(0.1) returns: the task holds the event loop again
Resume ==
    /\ agent = "react" /\ pc \in {"observed", "thought", "acted"}
    /\ pc' = CASE pc = "observed" -> "think"
               [] pc = "thought" -> "act"
               [] pc = "acted" -> "check"
    /\ hist' = [hist EXCEPT !.offered = Len(events)]
    /\ UNCHANGED <<config, serving, collections, phase_vars, execution, events>>

\* the task is cancelled while it is suspended in asyncio.sleep:
\* CancelledError is no Exception, so neither except block of
\* analyze_documents_stream and of the executor runs
Cancel ==
    /\ agent = "react" /\ fault = "cancel"
    /\ pc \in {"observed", "thought", "acted"}
    /\ pc' = "cancelled"
    /\ UNCHANGED <<config, serving, collections, phase_vars, execution, events, hist>>

\* stream_analysis: update = await wait_for(stream_queue.get(), 5.0); yield;
\* break on a terminal type
Consume ==
    /\ agent = "react" /\ consumer = "waiting" /\ LoopFree
    /\ Len(Updates(client)) < Len(events)
    /\ LET update == stream_queue_get(events, Len(Updates(client)))
       IN  /\ client' = Append(client, update)
           /\ consumer' = IF update.type \in TerminalTypes THEN "stopped" ELSE "waiting"
    /\ UNCHANGED <<config, collections, phase_vars, execution, events, pc, tick,
                   streaming_logger, requests, models, hist>>

\* wait_for can time out: the reader holds the event loop and the queue is empty
TimedOut ==
    /\ consumer = "waiting" /\ LoopFree
    /\ Len(Updates(client)) = Len(events)

\* stream_analysis, except asyncio.TimeoutError: one keep-alive line
KeepAlive ==
    /\ agent = "react" /\ TimedOut
    /\ client' = IF KeepAlives(client) < MaxKeepAlives
                 THEN Append(client, KeepAliveLine) ELSE client
    /\ tick' = ~tick
    /\ UNCHANGED <<config, collections, phase_vars, execution, events, pc, consumer,
                   streaming_logger, requests, models, hist>>

\* the steps of the analysis task
Task == NextReAct \/ Validate \/ ExecutorError \/ Except \/ Resume

NextGateway ==
    \/ Start \/ LoopTest \/ Observe \/ Think \/ Act \/ Check \/ Final
    \/ Validate \/ ExecutorError \/ Except \/ Resume \/ Cancel
    \/ Consume \/ KeepAlive

SpecGateway == InitGateway /\ [][NextGateway]_vars

\* the event loop runs a task that can run; nothing makes the reader read
FairTask == SpecGateway /\ WF_vars(Task)

\* the reader, too, runs when it can: a waiting get returns, a timeout fires
FairGateway == FairTask /\ WF_vars(Consume) /\ WF_vars(KeepAlive)

(***************************************************************************)
(* The blocking entry point: analyze_uploaded_documents (routes.py) calls   *)
(* execute_react_fraud_analysis, which validates the corpus and runs        *)
(* analyze_documents; the route then builds the response from the           *)
(* execution it got back.                                                   *)
(***************************************************************************)
\* corpora of two documents whose shortest content has 0, 9 or 10
\* characters after strip(), next to the corpora of every run
ExecutorCorpora ==
    Corpora \cup
    {[n |-> 2, typed |-> TRUE, trimmed |-> t] :
        t \in {0, MinContentLength - 1, MinContentLength}}

\* json.loads(options) if options else {}: no options, or both keys as
\* test_logging.py sends them
ExecutorOptions ==
    {NoOptions} \cup
    {<< <<"max_iterations", m>>, <<"confidence_threshold", t>> >> :
        m \in 1..ShortRun,
        t \in {DefaultConfidenceThreshold - 10, DefaultConfidenceThreshold}}

InitExecutor ==
    /\ agent = "react"
    /\ streaming = FALSE
    /\ corpus \in ExecutorCorpora
    /\ tools = get_all_tools
    /\ max_iterations \in 0..ShortRun
    /\ confidence_threshold = DefaultConfidenceThreshold
    /\ env \in GatewayEnvs
    /\ fault = "none"
    /\ options \in ExecutorOptions
    /\ pc = "validate"
    /\ iteration = 0
    /\ steps = <<>>
    /\ total_steps = 0
    /\ status = "running"
    /\ fraud_analysis = <<>>
    /\ error_message = NoneVal
    /\ iteration_count = 0
    /\ confidence_level = 0
    /\ executed_tools = <<>>
    /\ analysis_results = <<>>
    /\ observation = NoObservation
    /\ reasoning = NoReasoning
    /\ action = NoAction
    /\ events = <<>>
    /\ llm_response = <<>>
    /\ current_phase = "initial_observation"
    /\ tool_index = 0
    /\ all_results = <<>>
    /\ fraud_indicators = <<>>
    /\ evidence = <<>>
    /\ consumer = "absent"
    /\ client = <<>>
    /\ tick = FALSE
    /\ streaming_logger = NoLogger
    /\ requests = <<>>
    /\ models = InitialModels
    /\ hist = NoHist

\* AnalysisResponse(success=True, agent_execution=execution,
\* fraud_analysis=execution.fraud_analysis, ...)
AnalysisResponse ==
    [type |-> "response", status_code |-> 200, success |-> TRUE,
     agent_execution |-> <<[status |-> status, total_steps |-> total_steps]>>,
     fraud_analysis |-> fraud_analysis]

\* raise HTTPException(status_code=500, detail="Internal server error: ...")
InternalServerError ==
    [type |-> "response", status_code |-> 500, success |-> FALSE,
     agent_execution |-> <<>>, fraud_analysis |-> <<>>]

\* FraudAnalysisResult declares overall_confidence and fraud_indicators and
\* neither confidence nor indicators: reading execution.fraud_analysis.confidence
\* raises AttributeError
HasAttribute(name) ==
    name \in {"bundle_id", "analysis_id", "timestamp", "fraud_detected",
              "overall_confidence", "risk_level", "fraud_indicators", "evidence",
              "estimated_undervaluation", "estimated_duty_evasion",
              "recommended_actions", "investigation_priority",
              "executive_summary", "technical_details"}

\* if execution.fraud_analysis: confidence = execution.fraud_analysis.confidence;
\* indicators = execution.fraud_analysis.indicators
LogFraudRaises ==
    /\ fraud_analysis # <<>>
    /\ ~(HasAttribute("confidence") /\ HasAttribute("indicators"))

\* analyze_uploaded_documents from the return or the raise of
\* execute_react_fraud_analysis on: log_fraud, the response, except Exception
Respond ==
    /\ agent = "react" /\ ~streaming /\ pc \in {"returned", "raised"}
    /\ client = <<>>
    /\ client' = IF pc = "raised" \/ LogFraudRaises
                 THEN <<InternalServerError>> ELSE <<AnalysisResponse>>
    /\ pc' = "responded"
    /\ UNCHANGED <<config, collections, phase_vars, execution, events, consumer, tick,
                   streaming_logger, requests, models, hist>>

NextExecutor == NextReAct \/ Validate \/ ExecutorError \/ Respond

SpecExecutor == InitExecutor /\ [][NextExecutor]_vars

(***************************************************************************)
(* analyze_documents (react_agent.py 533-593), the blocking loop, as a     *)
(* relation between the memory before and after one of its stages.  at and *)
(* to are the positions in the loop before and after the stage.            *)
(***************************************************************************)
\* except Exception: memory.agent_execution.fail_execution(str(e)); return
fail_execution(msg, to) ==
    /\ status' = "failed"
    /\ error_message' = msg
    /\ to = "returned"

analyze_documents_step(at, to) ==
    \/ /\ at = "start" /\ to = "loop"
       /\ iteration_count' = 0
       /\ confidence_level' = 0
       /\ UNCHANGED <<collections, iteration, steps, total_steps, status, fraud_analysis,
                      error_message, executed_tools, analysis_results, observation,
                      reasoning, action>>
    \/ /\ at = "loop"
       /\ IF iteration < max_iterations
          THEN /\ iteration' = iteration + 1
               /\ iteration_count' = iteration + 1
               /\ to = "observe"
          ELSE /\ UNCHANGED <<iteration, iteration_count>>
               /\ to = "final"
       /\ UNCHANGED <<collections, steps, total_steps, status, fraud_analysis,
                      error_message, confidence_level, executed_tools, analysis_results,
                      observation, reasoning, action>>
    \/ /\ at = "observe"
       /\ IF ContentRaises(corpus)
          THEN /\ fail_execution("Observation failed", to)
               /\ UNCHANGED <<observation, steps, total_steps>>
          ELSE /\ observation' = observe
               /\ steps' = add_step(steps, "OBSERVATION", NoneVal, NoneVal)
               /\ total_steps' = Len(steps')
               /\ to = "think"
               /\ UNCHANGED <<status, error_message>>
       /\ UNCHANGED <<collections, iteration, fraud_analysis, iteration_count,
                      confidence_level, executed_tools, analysis_results, reasoning,
                      action>>
    \/ /\ at = "think"
       /\ \E outcome \in env.reason : reasoning' = think(outcome)
       /\ IF reasoning'.content = NonText
          THEN /\ fail_execution("validation error for AgentStep", to)
               /\ UNCHANGED <<steps, total_steps>>
          ELSE /\ steps' = add_step(steps, "THOUGHT", NoneVal, NoneVal)
               /\ total_steps' = Len(steps')
               /\ to = "act"
               /\ UNCHANGED <<status, error_message>>
       /\ UNCHANGED <<collections, iteration, fraud_analysis, iteration_count,
                      confidence_level, executed_tools, analysis_results, observation,
                      action>>
    \/ /\ at = "act" /\ to = "check"
       /\ \E out \in env.tool : action' = act(tools, reasoning, out)
       /\ executed_tools' = TrackTool(executed_tools, action'.tool_name)
       /\ analysis_results' = Append(analysis_results, action'.result)
       /\ steps' = add_step(steps, "ACTION", action'.tool_name, action'.result)
       /\ total_steps' = Len(steps')
       /\ UNCHANGED <<collections, iteration, status, fraud_analysis, error_message,
                      iteration_count, confidence_level, observation, reasoning>>
    \/ /\ at = "check"
       /\ confidence_level' = update_confidence(reasoning.confidence)
       /\ to = IF should_terminate(reasoning, iteration_count) THEN "final" ELSE "loop"
       /\ UNCHANGED <<collections, iteration, steps, total_steps, status, fraud_analysis,
                      error_message, iteration_count, executed_tools, analysis_results,
                      observation, reasoning, action>>
    \/ /\ at = "final" /\ to = "returned"
       /\ \E out \in env.tool :
            fraud_analysis' =
                complete_execution(generate_final_assessment(tools, confidence_level, out))
       /\ status' = "completed"
       /\ UNCHANGED <<collections, iteration, steps, total_steps, error_message,
                      iteration_count, confidence_level, executed_tools, analysis_results,
                      observation, reasoning, action>>

\* where analyze_documents is when analyze_documents_stream is at pc: a
\* sleeping coroutine stands before the next stage
BlockingPc(p) ==
    CASE p = "observed" -> "think"
      [] p = "thought" -> "act"
      [] p = "acted" -> "check"
      [] OTHER -> p

(***************************************************************************)
(* FraudDetectionExecutor.update_models: the roles, the names a request    *)
(* can ask for, and per role whether the test call of the new model passes.*)
(***************************************************************************)
Roles == {"main_reasoning_agent", "vision_pdf_extraction", "document_summary"}

ModelNames == {"gpt-4o", "gpt-4o-mini"}

\* model_configs: a name per role, NoneVal for a role the dict does not hold
ModelConfigs == [Roles -> ModelNames \cup {NoneVal}]

\* self._get_old_agent(): the agent is there, is not there (ImportError,
\* caught), or its import or constructor raises something else
OldAgentOutcomes(m) ==
    CASE m.old_agent_available = "True" -> {"True"}
      [] m.old_agent_available = "False" -> {"False"}
      [] OTHER -> {"True", "False", Raises}

\* update_main, but the components get the new LLM before it is tested
update_main_untested(m, new_model, passed, old_agent) ==
    LET test_llm == m.created + 1
        m1 == [m EXCEPT !.created = test_llm, !.llm = test_llm, !.observer = test_llm,
                        !.thinker = test_llm, !.actor = test_llm]
    IN  IF new_model = NoneVal \/ new_model = m.openai_model
        THEN [models |-> m, error |-> FALSE, updated |-> FALSE]
        ELSE IF ~passed
        THEN [models |-> m1, error |-> TRUE, updated |-> FALSE]
        ELSE [models |-> [m1 EXCEPT !.openai_model = new_model],
              error |-> FALSE, updated |-> TRUE]

\* update_models, the block of "main_reasoning_agent": test_llm =
\* ChatOpenAI(model=new_model), await test_llm.ainvoke, the four
\* assignments, the old agent, settings.openai_model
update_main(m, new_model, passed, old_agent) ==
    LET test_llm == m.created + 1
        m0 == [m EXCEPT !.created = test_llm]
        m1 == [m0 EXCEPT !.llm = test_llm, !.observer = test_llm,
                         !.thinker = test_llm, !.actor = test_llm]
    IN  IF new_model = NoneVal \/ new_model = m.openai_model
        THEN [models |-> m, error |-> FALSE, updated |-> FALSE]
        ELSE IF ~passed
        THEN [models |-> m0, error |-> TRUE, updated |-> FALSE]
        ELSE IF old_agent = Raises
        THEN [models |-> m1, error |-> TRUE, updated |-> FALSE]
        ELSE [models |-> [m1 EXCEPT !.openai_model = new_model,
                                    !.old_agent_available = old_agent,
                                    !.old_llm = IF old_agent = "True" THEN test_llm ELSE @],
              error |-> FALSE, updated |-> TRUE]

\* update_models, the blocks of "vision_pdf_extraction" and
\* "document_summary": update_vision_model / update_summary_model test the
\* name and set it, or raise ValueError; old_model is what get_processor_info
\* returned before both blocks
update_processor(m, field, new_model, old_model, passed) ==
    IF new_model = NoneVal \/ new_model = old_model
    THEN [models |-> m, error |-> FALSE, updated |-> FALSE]
    ELSE IF ~passed
    THEN [models |-> m, error |-> TRUE, updated |-> FALSE]
    ELSE [models |-> [m EXCEPT ![field] = new_model], error |-> FALSE, updated |-> TRUE]

\* the number of TRUE values
Count(flags) == Cardinality({i \in DOMAIN flags : flags[i]})

\* if errors and not updated_models: raise ValueError(...); else the result
update_models_result(errors, updated_models) ==
    IF errors > 0 /\ updated_models = 0 THEN "ValueError" ELSE "success"

InitModels ==
    /\ agent = "models"
    /\ pc = "idle"
    /\ corpus = [n |-> 0, typed |-> TRUE, trimmed |-> 0]
    /\ streaming = FALSE
    /\ tools = get_all_tools
    /\ max_iterations = DefaultMaxIterations
    /\ confidence_threshold = DefaultConfidenceThreshold
    /\ env = FullEnv
    /\ iteration = 0
    /\ steps = <<>>
    /\ total_steps = 0
    /\ status = "running"
    /\ fraud_analysis = <<>>
    /\ error_message = NoneVal
    /\ iteration_count = 0
    /\ confidence_level = 0
    /\ executed_tools = <<>>
    /\ analysis_results = <<>>
    /\ observation = NoObservation
    /\ reasoning = NoReasoning
    /\ action = NoAction
    /\ events = <<>>
    /\ llm_response = <<>>
    /\ current_phase = "initial_observation"
    /\ tool_index = 0
    /\ all_results = <<>>
    /\ fraud_indicators = <<>>
    /\ evidence = <<>>
    /\ hist = NoHist
    /\ NoServing

\* what became of the request for one role: not asked or the name in use
\* (skipped), or the test call of the new name passed or failed
Tested(new_model, old_model, passed) ==
    IF new_model = NoneVal \/ new_model = old_model THEN "skipped"
    ELSE IF passed THEN "passed" ELSE "failed"

\* await executor.update_models(model_configs); hist.calls holds the last
\* call: per role what became of the request, what _get_old_agent did when
\* it was called, and how the call ended
UpdateModels ==
    /\ agent = "models" /\ models.created < MaxUpdates
    /\ \E model_configs \in ModelConfigs : \E passed \in [Roles -> BOOLEAN] :
       \E old_agent \in OldAgentOutcomes(models) :
         LET a == update_main(models, model_configs["main_reasoning_agent"],
                              passed["main_reasoning_agent"], old_agent)
             v == update_processor(a.models, "vision_model",
                                   model_configs["vision_pdf_extraction"],
                                   models.vision_model, passed["vision_pdf_extraction"])
             s == update_processor(v.models, "summary_model",
                                   model_configs["document_summary"],
                                   models.summary_model, passed["document_summary"])
             errors == Count(<<a.error, v.error, s.error>>)
             updated_models == Count(<<a.updated, v.updated, s.updated>>)
         IN  /\ models' = s.models
             /\ hist' = [hist EXCEPT !.calls =
                    <<[op |-> "update_models",
                       arg |-> [main |-> Tested(model_configs["main_reasoning_agent"],
                                                models.openai_model,
                                                passed["main_reasoning_agent"]),
                                vision |-> Tested(model_configs["vision_pdf_extraction"],
                                                  models.vision_model,
                                                  passed["vision_pdf_extraction"]),
                                summary |-> Tested(model_configs["document_summary"],
                                                   models.summary_model,
                                                   passed["document_summary"]),
                                old_agent |-> old_agent,
                                result |-> update_models_result(errors, updated_models)]]>>]
    /\ UNCHANGED <<config, collections, phase_vars, execution, events, pc, consumer,
                   client, tick, streaming_logger, requests>>

SpecModels == InitModels /\ [][UpdateModels]_vars

(***************************************************************************)
(* Two /analyze/stream requests in flight at once.  Each request has its   *)
(* own stream_queue; the StreamingLogger that the preprocessing of a PDF   *)
(* reports to is one object for the whole process.                         *)
(***************************************************************************)
BundleIds == {"bundle_a", "bundle_b"}

\* StreamingLogger.stream_update: the update, stamped with self.bundle_id
PreprocessingStep(logger, filename) ==
    [type |-> "preprocessing_step", bundle_id |-> logger.bundle_id, filename |-> filename]

\* StreamingLogger.stream_update: every registered callback gets the update;
\* the callback of a request puts it on the queue of that request
stream_update(logger, qs, r) ==
    [c \in DOMAIN qs |->
        IF c \in Elems(logger.stream_callbacks)
        THEN [qs[c] EXCEPT !.stream_queue = Append(@, PreprocessingStep(logger, r))]
        ELSE qs[c]]

InitRequests ==
    /\ agent = "requests"
    /\ pc = "idle"
    /\ corpus \in Corpora
    /\ streaming = TRUE
    /\ tools = get_all_tools
    /\ max_iterations = DefaultMaxIterations
    /\ confidence_threshold = DefaultConfidenceThreshold
    /\ env = FullEnv
    /\ fault = "none"
    /\ iteration = 0
    /\ steps = <<>>
    /\ total_steps = 0
    /\ status = "running"
    /\ fraud_analysis = <<>>
    /\ error_message = NoneVal
    /\ iteration_count = 0
    /\ confidence_level = 0
    /\ executed_tools = <<>>
    /\ analysis_results = <<>>
    /\ observation = NoObservation
    /\ reasoning = NoReasoning
    /\ action = NoAction
    /\ events = <<>>
    /\ llm_response = <<>>
    /\ current_phase = "initial_observation"
    /\ tool_index = 0
    /\ all_results = <<>>
    /\ fraud_indicators = <<>>
    /\ evidence = <<>>
    /\ consumer = "absent"
    /\ client = <<>>
    /\ tick = FALSE
    /\ streaming_logger = NoLogger
    /\ requests = [r \in BundleIds |->
                      [pc |-> "new", logged |-> 0, stream_queue |-> <<>>, sent |-> <<>>]]
    /\ options = NoOptions
    /\ models = InitialModels
    /\ hist = NoHist

\* what no step of a request handler writes
requests_frame ==
    <<config, collections, phase_vars, execution, events, pc, hist, consumer, client, tick,
      models>>

\* analyze_documents_stream: set_streaming_bundle_id(bundle_id), the queue,
\* the StreamingResponse
Handler(r) ==
    /\ agent = "requests" /\ requests[r].pc = "new"
    /\ streaming_logger' = [streaming_logger EXCEPT !.bundle_id = r]
    /\ requests' = [requests EXCEPT ![r].pc = "open"]
    /\ UNCHANGED requests_frame

\* stream_analysis: add_streaming_callback(streaming_callback), then the
\* processing task of the PDF is started
AddCallback(r) ==
    /\ agent = "requests" /\ requests[r].pc = "open"
    /\ streaming_logger' = [streaming_logger EXCEPT !.stream_callbacks = Append(@, r)]
    /\ requests' = [requests EXCEPT ![r].pc = "processing"]
    /\ UNCHANGED requests_frame

\* extract_comprehensive_content_async of request r: log_preprocessing_step
LogPreprocessingStep(r) ==
    /\ agent = "requests" /\ requests[r].pc = "processing"
    /\ requests[r].logged < MaxUpdates
    /\ requests' = [stream_update(streaming_logger, requests, r)
                       EXCEPT ![r].logged = @ + 1]
    /\ UNCHANGED <<requests_frame, streaming_logger>>

\* stream_analysis, finally: remove_streaming_callback(streaming_callback);
\* the analysis of the request follows
RemoveCallback(r) ==
    /\ agent = "requests" /\ requests[r].pc = "processing"
    /\ streaming_logger' = [streaming_logger EXCEPT !.stream_callbacks =
           SelectSeq(@, LAMBDA c : c # r)]
    /\ requests' = [requests EXCEPT ![r].pc = "analysing"]
    /\ UNCHANGED requests_frame

\* stream_analysis: update = stream_queue.get(); yield update
Yield(r) ==
    /\ agent = "requests" /\ requests[r].pc \in {"processing", "analysing"}
    /\ requests[r].stream_queue # <<>>
    /\ requests' = [requests EXCEPT
           ![r].sent = Append(@, Head(requests[r].stream_queue)),
           ![r].stream_queue = Tail(@)]
    /\ UNCHANGED <<requests_frame, streaming_logger>>

NextRequests ==
    \E r \in BundleIds :
        \/ Handler(r) \/ AddCallback(r) \/ LogPreprocessingStep(r)
        \/ RemoveCallback(r) \/ Yield(r)

SpecRequests == InitRequests /\ [][NextRequests]_vars

(***************************************************************************)
(* Properties.                                                             *)
(***************************************************************************)
IsPrefix(a, b) == Len(a) <= Len(b) /\ \A i \in 1..Len(a) : a[i] = b[i]

WellNumbered ==
    /\ \A i \in 1..Len(steps) : steps[i].step_number = i
    /\ total_steps = Len(steps)

\* C1: the step log is append-only, its step_number values are exactly 1..N
\* in append order, and total_steps equals N, in every step of every run.
C1_StepLogAppendOnlyNumbered ==
    [][IsPrefix(steps, steps') /\ WellNumbered /\ WellNumbered']_vars

C1_Witness ==
    /\ agent = "fixed" /\ streaming /\ status = "completed"
    /\ Len(steps) >= 12 /\ total_steps = Len(steps)
    /\ steps[Len(steps)].step_number = Len(steps)

KindAt(i) ==
    CASE i % 3 = 1 -> "OBSERVATION"
      [] i % 3 = 2 -> "THOUGHT"
      [] OTHER     -> "ACTION"

\* C2: in a ReAct run the step kinds are a prefix of (OBSERVATION, THOUGHT,
\* ACTION) repeated, each cycle adds its three steps after incrementing the
\* iteration, and once cycle k is complete the log holds 3k steps and the
\* memory confidence is the confidence of cycle k's reasoning.
C2_CycleAppendsObservationThoughtAction ==
    agent = "react" =>
        /\ \A i \in 1..Len(steps) : steps[i].step_type = KindAt(i)
        /\ iteration_count = iteration
        /\ pc = "observe" => Len(steps) = 3 * (iteration - 1)
        /\ pc = "think" => Len(steps) = 3 * (iteration - 1) + 1
        /\ pc = "act" => Len(steps) = 3 * (iteration - 1) + 2
        /\ pc = "check" => Len(steps) = 3 * iteration
        /\ (pc \in {"loop", "final"} \/ status = "completed") =>
              /\ Len(steps) = 3 * iteration
              /\ iteration > 0 => confidence_level = reasoning.confidence

C2_Witness ==
    /\ agent = "react" /\ pc = "loop" /\ iteration = 2
    /\ Len(steps) = 6 /\ confidence_level = 90

\* C3: the iteration counter never exceeds max_iterations and at most
\* max_iterations cycles are started.
C3_IterationWithinBudget ==
    agent = "react" =>
        /\ iteration <= max_iterations
        /\ iteration_count <= max_iterations
        /\ hist.cycles <= max_iterations

C3_Witness ==
    /\ agent = "react" /\ pc = "final" /\ max_iterations = 2
    /\ iteration = max_iterations /\ hist.cycles = 2

\* C4: when cycle k < max_iterations ends with confidence >= threshold and
\* reasoning type "synthesis", the loop stops at k: no cycle k+1 is started
\* and the log keeps its 3k steps.
C4_SynthesisStopsLoop ==
    (agent = "react" /\ hist.synth_at > 0 /\ hist.synth_at < max_iterations) =>
        /\ iteration = hist.synth_at
        /\ hist.cycles = hist.synth_at
        /\ Len(steps) = 3 * hist.synth_at
        /\ pc \in {"final", "returned"}

C4_Witness ==
    /\ agent = "react" /\ hist.synth_at = 1 /\ max_iterations = 2
    /\ reasoning.confidence = confidence_threshold
    /\ status = "completed" /\ Len(steps) = 3

\* C5: while every cycle's reasoning has confidence below 0.3, the loop
\* stops by iteration 6: iteration 7 is never started.
C5_StagnationStopsBySix ==
    (agent = "react" /\ hist.all_low /\ max_iterations >= StagnationIterations + 1) =>
        /\ iteration <= StagnationIterations + 1
        /\ hist.cycles <= StagnationIterations + 1
        /\ iteration = StagnationIterations + 1 => pc # "loop"

C5_Witness ==
    /\ agent = "react" /\ hist.all_low /\ max_iterations > StagnationIterations + 1
    /\ iteration = StagnationIterations + 1 /\ pc = "final"

\* what holds at every moment of a run in which every reasoning call raised
C6_Safety ==
    (agent = "react" /\ hist.all_raised) =>
        /\ pc \in {"act", "check"} => reasoning = FallbackReasoning
        /\ hist.cycles <= Min(StagnationIterations + 1, max_iterations)
        /\ (pc = "returned" /\ ~ContentRaises(corpus)) => status = "completed"

\* C6: a reasoning call that raises yields the fixed fallback reasoning, and
\* a run in which every reasoning call raises terminates, with status
\* completed, after at most min(6, max_iterations) cycles.
C6_FallbackReasoningTerminates ==
    /\ []C6_Safety
    /\ <>(agent = "react" => (~hist.all_raised \/ pc = "returned"))

C6_Witness ==
    /\ agent = "react" /\ hist.all_raised /\ max_iterations > StagnationIterations + 1
    /\ hist.cycles = StagnationIterations + 1 /\ status = "completed"
    /\ reasoning = FallbackReasoning

\* Scenario A: two documents, only the synthesis tool registered, every
\* reasoning call returned unparseable text, at least one cycle ran
ScenarioA ==
    /\ agent = "react"
    /\ corpus = [n |-> 2, typed |-> TRUE, trimmed |-> 2 * MinContentLength]
    /\ tools = {SYNTHESIS}
    /\ hist.all_unparseable

\* C7 as stated: every cycle's reasoning is the fallback with confidence
\* 0.0, the loop stops at iteration 6 and the result is completed, LOW, no
\* fraud detected.
C7_Original ==
    (ScenarioA /\ max_iterations >= StagnationIterations + 1) =>
        /\ pc \in {"act", "check"} => reasoning.confidence = FallbackConfidence
        /\ pc = "returned" =>
              /\ iteration = StagnationIterations + 1
              /\ status = "completed"
              /\ fraud_analysis[1].risk_level = "LOW"
              /\ fraud_analysis[1].fraud_detected = FALSE

\* C7 (amended): in Scenario A every cycle's reasoning is the parser's
\* default (synthesis action, confidence 0.5, type "investigation"), the
\* loop runs until iteration max_iterations, and the result is completed
\* with confidence 0.5 and risk level MEDIUM; fraud_detected is false when
\* the synthesis text holds no fraud keyword.
C7_ScenarioARunsToBudget ==
    (ScenarioA /\ max_iterations >= 1) =>
        /\ pc \in {"act", "check"} =>
              /\ reasoning.recommended_action = SYNTHESIS
              /\ reasoning.confidence = DefaultConfidence
              /\ reasoning.reasoning_type = "investigation"
        /\ pc = "returned" =>
              /\ iteration = max_iterations
              /\ status = "completed"
              /\ fraud_analysis[1].overall_confidence = DefaultConfidence
              /\ fraud_analysis[1].risk_level = "MEDIUM"
              /\ fraud_analysis[1].executive_summary = "out_clean"
                    => fraud_analysis[1].fraud_detected = FALSE

C7_Witness ==
    /\ ScenarioA /\ max_iterations = DefaultMaxIterations /\ pc = "returned"
    /\ iteration = DefaultMaxIterations
    /\ fraud_analysis[1].risk_level = "MEDIUM"
    /\ fraud_analysis[1].fraud_detected = FALSE

\* C8: Scenario B: when the reasoning of iteration 1 is the well-formed
\* synthesis response with confidence 0.9 and the threshold is 0.7, the loop
\* stops after iteration 1 and the returned state has total_steps = 3.
C8_ScenarioBThreeSteps ==
    (/\ agent = "react" /\ hist.first = "scenario_b"
     /\ confidence_threshold = DefaultConfidenceThreshold
     /\ pc \in {"loop", "final", "returned"}) =>
        /\ pc # "loop"
        /\ iteration = 1
        /\ hist.cycles = 1
        /\ total_steps = 3
        /\ pc = "returned" => status = "completed" /\ Len(steps) = 3

C8_Witness ==
    /\ agent = "react" /\ hist.first = "scenario_b" /\ max_iterations > 1
    /\ confidence_threshold = DefaultConfidenceThreshold
    /\ pc = "returned" /\ status = "completed" /\ total_steps = 3

\* the lines of a response that the parser recognises for a key: the line
\* starts with the key (the first line may be indented, the others not)
Recognised(text, key) ==
    {i \in 1..Len(text) : text[i].key = key /\ (i = 1 \/ ~text[i].lead)}

Last(S) == CHOOSE i \in S : \A j \in S : j <= i

\* the value the response gives for a key, or the default when no line is
\* recognised for it
FieldOf(text, key, default) ==
    IF Recognised(text, key) = {} THEN default
    ELSE text[Last(Recognised(text, key))].val

C10_UnknownActionRunsSynthesis ==
    (agent = "react" /\ pc = "check" /\ reasoning.recommended_action \notin tools) =>
        /\ action.tool_name = SYNTHESIS
        /\ action.result \in ToolOutputs

\* the result strings that carry an error: the text _run makes of a tool's
\* exception and the texts of the except branches of execute_tool and act
ErrorResults == {"err", "Tool execution failed", "Action failed"}

\* C11: the Act stage of a cycle never fails the loop: it appends the ACTION
\* step with the action's result as output, leaves status running and moves
\* on to the termination check; when the tool fails the result is an
\* error-carrying string.
C11_ToolFailureIsNotFatal ==
    [][(agent = "react" /\ pc = "act") =>
          /\ pc' = "check"
          /\ status' = "running"
          /\ Len(steps') = Len(steps) + 1
          /\ steps'[Len(steps')].step_type = "ACTION"
          /\ steps'[Len(steps')].tool_output = action'.result
          /\ env.tool = {"err"} => action'.result \in ErrorResults]_vars

C11_Witness ==
    /\ agent = "react" /\ pc = "check" /\ iteration = 2
    /\ action = [tool_name |-> "validate_quantity_consistency", result |-> "err"]
    /\ status = "running" /\ Len(steps) = 6
    /\ steps[6].step_type = "ACTION" /\ steps[6].tool_output = "err"

\* C12: a run in which every tool call fails (and nothing else does) returns
\* with status completed and an assessment with confidence 0.0 and risk
\* level LOW, whatever the reasoning capability returned.
C12_AllToolsFailGivesZeroLow ==
    (agent = "react" /\ env.tool = {"err"} /\ ~ContentRaises(corpus)
     /\ pc = "returned") =>
        /\ status = "completed"
        /\ fraud_analysis # <<>>
        /\ fraud_analysis[1].overall_confidence = 0
        /\ fraud_analysis[1].risk_level = "LOW"

\* C13: whenever a run has become completed, exactly one final call of the
\* synthesis tool was made, for every tool registry and whatever the last
\* dispatched action was.
C13_OneFinalSynthesisCall ==
    (agent = "react" /\ status = "completed") => hist.synthesis_calls = 1

\* C14: when an error escapes a stage of cycle k, the run goes from running
\* straight to failed with the error message attached and returns; the step
\* log is exactly what had been appended before the error, and after the
\* failure no step is appended and no cycle is started.
C14_FailureKeepsPartialState ==
    [][agent = "react" =>
          /\ (status = "running" /\ status' = "failed") =>
                /\ steps' = steps
                /\ total_steps' = Len(steps)
                /\ error_message' # NoneVal
                /\ pc' = "returned"
                /\ iteration' = iteration
                /\ hist'.cycles = hist.cycles
          /\ status = "failed" =>
                /\ status' = "failed"
                /\ steps' = steps
                /\ iteration' = iteration]_vars

C14_Witness ==
    /\ agent = "react" /\ status = "failed" /\ pc = "returned"
    /\ iteration = 2 /\ hist.cycles = 2
    /\ Len(steps) = 4 /\ total_steps = 4
    /\ steps[4].step_type = "OBSERVATION"
    /\ error_message # NoneVal /\ fraud_analysis = <<>>

InUnitInterval(confidence) == confidence >= 0 /\ confidence <= 100

\* C16: in every reachable state the memory's confidence level, the
\* confidence carried by every reasoning_completed and analysis_completed
\* event, and the assessment's overall confidence lie in [0,1].
C16_ConfidenceInUnitInterval ==
    /\ InUnitInterval(confidence_level)
    /\ \A i \in 1..Len(events) :
          events[i].type \in {"reasoning_completed", "analysis_completed"} =>
              InUnitInterval(events[i].confidence)
    /\ fraud_analysis # <<>> => InUnitInterval(fraud_analysis[1].overall_confidence)

\* the assessment is there exactly when the run is completed
AssessmentMatchesStatus ==
    /\ status \in {"running", "failed"} => fraud_analysis = <<>>
    /\ status = "completed" => Len(fraud_analysis) = 1

TierRank(level) ==
    CASE level = "LOW" -> 0
      [] level = "MEDIUM" -> 1
      [] level = "HIGH" -> 2
      [] level = "CRITICAL" -> 3

\* C18: the risk level of every assessment (normal or fallback, of either
\* agent) is CRITICAL when its confidence is >= 0.8, HIGH when >= 0.6,
\* MEDIUM when >= 0.4 and LOW otherwise, and over the whole range a higher
\* confidence never gives a lower tier.
C18_RiskTierMonotone ==
    fraud_analysis # <<>> =>
        LET a == fraud_analysis[1]
        IN  /\ a.overall_confidence >= CriticalLevel => a.risk_level = "CRITICAL"
            /\ (a.overall_confidence >= HighLevel /\ a.overall_confidence < CriticalLevel)
                  => a.risk_level = "HIGH"
            /\ (a.overall_confidence >= MediumLevel /\ a.overall_confidence < HighLevel)
                  => a.risk_level = "MEDIUM"
            /\ a.overall_confidence < MediumLevel => a.risk_level = "LOW"
            /\ \A c \in 0..100 :
                  /\ c <= a.overall_confidence =>
                        TierRank(RiskLevel(c)) <= TierRank(a.risk_level)
                  /\ c >= a.overall_confidence =>
                        TierRank(RiskLevel(c)) >= TierRank(a.risk_level)

C18_Witness ==
    /\ agent = "react" /\ status = "completed" /\ iteration = 3
    /\ fraud_analysis[1].overall_confidence = CriticalLevel
    /\ fraud_analysis[1].risk_level = "CRITICAL"

RECURSIVE ArgsOf(_, _)
\* the arguments of the calls of one operation, in call order
ArgsOf(calls, op) ==
    IF calls = <<>> THEN <<>>
    ELSE IF Head(calls).op = op THEN <<Head(calls).arg>> \o ArgsOf(Tail(calls), op)
    ELSE ArgsOf(Tail(calls), op)

RECURSIVE FirstOccurrences(_)
\* a sequence without the repetitions of its elements
FirstOccurrences(seq) ==
    IF seq = <<>> THEN <<>>
    ELSE LET front == FirstOccurrences(SubSeq(seq, 1, Len(seq) - 1))
             last == seq[Len(seq)]
         IN  IF last \in {front[i] : i \in 1..Len(front)} THEN front
             ELSE Append(front, last)

\* C19: after any sequence of add_evidence / add_fraud_indicator calls each
\* collection holds every added string exactly once, in first-insertion
\* order; adding a string that is already stored changes nothing.
C19_InsertionIdempotent ==
    agent = "memory" =>
        /\ fraud_indicators = FirstOccurrences(ArgsOf(hist.calls, "add_fraud_indicator"))
        /\ evidence = FirstOccurrences(ArgsOf(hist.calls, "add_evidence"))

C19_Witness ==
    /\ agent = "memory"
    /\ ArgsOf(hist.calls, "add_evidence") =
           <<"weight differs", "round unit price", "weight differs">>
    /\ evidence = <<"weight differs", "round unit price">>

\* C20: a call of observe, whether it returns or raises, leaves the step
\* log, the iteration, the confidence, the indicators, the evidence, the
\* executed tools and the status of the memory exactly as they were.
C20_ObserveLeavesMemoryUnchanged ==
    [][(/\ agent = "memory"
        /\ Len(hist'.calls) = Len(hist.calls) + 1
        /\ hist'.calls[Len(hist'.calls)].op = "observe") =>
           UNCHANGED <<steps, total_steps, iteration_count, confidence_level,
                       fraud_indicators, evidence, executed_tools, status>>]_vars

C20_Witness ==
    /\ agent = "memory" /\ Len(hist.calls) = 3
    /\ hist.calls[3] = [op |-> "observe", arg |-> "returned"]
    /\ observation.evidence_collected = evidence /\ Len(evidence) = 1
    /\ observation.tools_executed = executed_tools /\ Len(executed_tools) = 1
    /\ Len(steps) = 1

\* C21: the executed-tool list has no duplicates and holds exactly the tool
\* names recorded on the ACTION steps of the log; the Observation built in
\* cycle k reports exactly the tools dispatched in cycles 1..k-1.
ActionSteps(log) == SelectSeq(log, LAMBDA s : s.step_type = "ACTION")

ToolNames(log) == {log[i].tool_used : i \in 1..Len(log)}

C21_ExecutedToolsAreTheDispatchedTools ==
    agent \in {"react", "fixed"} =>
        /\ Cardinality(Elems(executed_tools)) = Len(executed_tools)
        /\ Elems(executed_tools) = ToolNames(ActionSteps(steps))
        /\ (agent = "react" /\ pc \in {"think", "act", "check"}) =>
               LET earlier == SubSeq(ActionSteps(steps), 1, iteration - 1)
               IN  /\ Len(ActionSteps(steps)) >= iteration - 1
                   /\ Elems(observation.tools_executed) = ToolNames(earlier)
                   /\ Cardinality(ToolNames(earlier)) = Len(observation.tools_executed)

C21_Witness ==
    /\ agent = "react" /\ pc = "think" /\ iteration = 3
    /\ Len(ActionSteps(steps)) = 2
    /\ steps[3].tool_used = steps[6].tool_used
    /\ observation.tools_executed = <<steps[3].tool_used>>

\* C22: in a streaming ReAct run the cycle events are enqueued, for
\* k = 1, 2, ..., in the order iteration_started(k), observation_completed(k),
\* reasoning_completed(k), action_completed(k); each *_completed event is
\* in the queue only when the step it reports is in the log; the reader
\* yields the updates in the order of the queue.
CycleTypes ==
    <<"iteration_started", "observation_completed", "reasoning_completed",
      "action_completed">>

CycleEvents(q) == SelectSeq(q, LAMBDA u : u.type \in Elems(CycleTypes))

ReportedStep == <<"none", "OBSERVATION", "THOUGHT", "ACTION">>

C22_EventsFollowTheStepLog ==
    (agent = "react" /\ streaming /\ consumer # "absent") =>
        LET c == CycleEvents(events)
            n == Len(Updates(client))
        IN  /\ \A i \in 1..Len(c) :
                 LET k == ((i - 1) \div 4) + 1
                     r == ((i - 1) % 4) + 1
                 IN  /\ c[i].iteration = k
                     /\ c[i].type = CycleTypes[r]
                     /\ r > 1 => /\ Len(steps) >= 3 * (k - 1) + (r - 1)
                                 /\ steps[3 * (k - 1) + (r - 1)].step_type = ReportedStep[r]
            /\ n <= Len(events)
            /\ Updates(client) = SubSeq(events, 1, n)

C22_Witness ==
    /\ agent = "react" /\ consumer = "waiting" /\ pc = "acted" /\ iteration = 2
    /\ Len(client) = 10 /\ KeepAlives(client) = 1
    /\ client[10].type = "action_completed" /\ client[10].iteration = 2

\* C23: whatever the corpus and the outcome of the run, the reader of a
\* stream that nothing disturbs eventually yields one terminal update
\* (analysis_completed or analysis_error), yields nothing after it and stops.
StreamEnded ==
    /\ consumer = "stopped"
    /\ Len(client) > 0
    /\ client[Len(client)].type \in TerminalTypes
    /\ Len(SelectSeq(client, LAMBDA u : u.type \in TerminalTypes)) = 1

C23_StreamEndsWithOneTerminalEvent == (fault = "none") => <>StreamEnded

\* C24: with a reader that never reads, or reads as slowly as it likes, a
\* run that nothing else disturbs goes through its cycles and reaches the
\* status completed or failed: no update waits for the reader.
C24_LoopNeverWaitsForTheReader ==
    (fault = "none" /\ pc = "start") ~>
        (pc = "returned" /\ status \in {"completed", "failed"})

C24_Witness ==
    /\ consumer = "waiting" /\ client = <<>>
    /\ pc = "returned" /\ status = "completed"
    /\ hist.cycles = 2 /\ Len(events) = 11

\* C25: the updates waiting in the queue of one investigation never exceed
\* a fixed capacity, whatever the number of cycles and however little the
\* reader reads.  QueueCapacity is such a capacity: it holds the updates of
\* one whole cycle, the analysis_started update and the closing updates.
QueueCapacity == 8

Waiting == Len(events) - Len(Updates(client))

C25_QueueStaysWithinCapacity ==
    (agent = "react" /\ consumer # "absent") => Waiting <= QueueCapacity

\* C26: a put that raises is not fatal: the run is never diverted to its
\* failure handler by it, so it never ends failed with the delivery failure
\* as error, and the task ends raising only for a corpus that validation
\* rejected.
C26_DeliveryFailureIsNotFatal ==
    (agent = "react" /\ consumer # "absent") =>
        /\ pc # "except"
        /\ error_message # "delivery failed"
        /\ pc = "raised" => Rejected(corpus)

\* C27: when the loop is about to make a blocking external call
\* (classification and overview, reasoning, tool), every update emitted so
\* far was in the queue at a moment at which the reader could run.
C27_UpdatesOfferedBeforeTheNextCall ==
    (agent = "react" /\ consumer = "waiting" /\ fault = "none"
     /\ pc \in {"observe", "think", "act"}) =>
        hist.offered = Len(events)

\* C28: while the stream is open and the reader has nothing to yield, a
\* keep-alive can be emitted, also while the loop is in a reasoning or a
\* tool call.
C28_KeepAliveDuringACall ==
    (agent = "react" /\ consumer = "waiting" /\ pc \in {"think", "act"}
     /\ Len(Updates(client)) = Len(events)) =>
        TimedOut

\* C30: a cancelled investigation ends with status failed and an error that
\* names the cancellation; it is never left in status running.
C30_CancelledRunEndsFailed ==
    (agent = "react" /\ pc = "cancelled") =>
        /\ status = "failed"
        /\ error_message = "cancelled"

\* C29: two requests in flight at once are independent: every update
\* yielded on the stream of a request was generated by that request and
\* carries the bundle id of that request.
C29_StreamsCarryOnlyTheirOwnUpdates ==
    agent = "requests" =>
        \A r \in BundleIds : \A i \in 1..Len(requests[r].sent) :
            /\ requests[r].sent[i].filename = r
            /\ requests[r].sent[i].bundle_id = r

\* C31: readers never hold a mutable reference to the state of the memory:
\* when a caller mutates a value it was handed by a read operation
\* (get_agent_execution, get_current_state, get_fraud_indicators,
\* get_evidence, get_executed_tools, get_analysis_results), the lists of the
\* memory and the step log stay as they were.
C31_ReadersHoldSnapshots ==
    [][(/\ Len(hist'.calls) = Len(hist.calls) + 1
        /\ hist'.calls[Len(hist'.calls)].op = "mutate") =>
           UNCHANGED <<steps, total_steps, fraud_indicators, evidence, executed_tools,
                       analysis_results>>]_vars

\* C32: an invalid corpus (no document, or a document whose content is
\* empty or shorter than ten characters after trimming) is rejected before
\* the loop starts: the executor raises AgentExecutionError, no Observe,
\* Think or Act call is made and no execution is created.
C32_InvalidCorpusRejectedBeforeTheLoop ==
    (agent = "react" /\ ~streaming /\ Rejected(corpus)) =>
        /\ pc \in {"validate", "escaped", "raised", "responded"}
        /\ hist.cycles = 0
        /\ steps = <<>> /\ total_steps = 0
        /\ observation = NoObservation
        /\ reasoning = NoReasoning
        /\ action = NoAction
        /\ executed_tools = <<>> /\ analysis_results = <<>>
        /\ status = "running" /\ fraud_analysis = <<>>
        /\ pc = "responded" => client = <<InternalServerError>>

C32_Witness ==
    /\ agent = "react" /\ ~streaming
    /\ corpus.n = 2 /\ corpus.typed /\ corpus.trimmed = MinContentLength - 1
    /\ pc = "raised"

\* options[key]
Option(key) == (CHOOSE i \in Elems(options) : i[1] = key)[2]

\* C33: the budget and the threshold of the loop are parameters of the
\* request: a run started with options.max_iterations = m performs at most
\* m cycles, and options.confidence_threshold is the threshold that the
\* termination predicate of the run reads.
C33_OptionsSetBudgetAndThreshold ==
    (agent = "react" /\ ~streaming /\ options # NoOptions) =>
        /\ hist.cycles <= Option("max_iterations")
        /\ pc = "check" => confidence_threshold = Option("confidence_threshold")

\* C37: the blocking upload entry point answers with a successful response
\* carrying the execution and its fraud analysis whenever the run ended with
\* status completed; an error response is sent only when the executor failed.
C37_CompletedRunGetsSuccessResponse ==
    (agent = "react" /\ ~streaming /\ pc = "responded") =>
        /\ status = "completed" =>
               /\ client[1].status_code = 200
               /\ client[1].success
               /\ client[1].fraud_analysis = fraud_analysis
        /\ client[1].status_code # 200 => fraud_analysis = <<>> /\ status = "running"

\* C34: streaming is observation only: every step of a streaming run whose
\* queue and task are left alone either leaves the memory as it is (an
\* update is read, the coroutine sleeps or wakes) or changes the memory
\* exactly as the stage of the blocking run at the same position does, and
\* moves to the position the blocking run moves to; so both go through the
\* same memory states and end with the same step log, iteration count,
\* confidence, status and assessment.
C34_StreamingRunFollowsTheBlockingRun ==
    [][(/\ agent = "react" /\ streaming /\ fault = "none"
        /\ pc \notin {"validate", "escaped", "raised"}) =>
           \/ /\ UNCHANGED <<collections, iteration, steps, total_steps, status,
                             fraud_analysis, error_message, iteration_count,
                             confidence_level, executed_tools, analysis_results,
                             observation, reasoning, action>>
              /\ BlockingPc(pc') = BlockingPc(pc)
           \/ analyze_documents_step(BlockingPc(pc), BlockingPc(pc'))]_vars

C34_Witness ==
    /\ agent = "react" /\ streaming /\ fault = "none"
    /\ pc = "returned" /\ status = "completed"
    /\ hist.cycles = 2 /\ Len(steps) = 6
    /\ Len(Updates(client)) > 0

\* the five phases of the fixed-phase agent, in order
Phases ==
    <<"initial_observation", "document_extraction", "systematic_validation",
      "pattern_detection", "evidence_synthesis">>

\* C36: in the fixed-phase agent, blocking or streaming, a validation or
\* pattern-detection tool that is missing from the registry or raises does
\* not abort the run: the loop goes on to the next tool with the run still
\* running, every registered tool is attempted, the phases are entered in
\* their order, and a run that got past document extraction ends with
\* status completed and an assessment.
C36_ToolFailureDoesNotAbortTheRun ==
    [][agent = "fixed" =>
        /\ (pc = "phase3_tool" /\ tool_index <= Len(validation_tools)) =>
               /\ pc' = "phase3_tool" /\ tool_index' = tool_index + 1
               /\ status' = "running"
               /\ validation_tools[tool_index] \in tools => Len(steps') > Len(steps)
        /\ (pc = "phase3_tool" /\ tool_index > Len(validation_tools)) => pc' = "phase4"
        /\ (pc = "phase4_tool" /\ tool_index <= Len(pattern_tools)) =>
               /\ pc' = "phase4_tool" /\ tool_index' = tool_index + 1
               /\ status' = "running"
               /\ pattern_tools[tool_index] \in tools => Len(steps') > Len(steps)
        /\ (pc = "phase4_tool" /\ tool_index > Len(pattern_tools)) => pc' = "phase5"
        /\ current_phase' # current_phase =>
               \E i \in 1..(Len(Phases) - 1) :
                   current_phase = Phases[i] /\ current_phase' = Phases[i + 1]
        /\ (pc' = "returned" /\ current_phase' \notin {Phases[1], Phases[2]}) =>
               /\ current_phase' = Phases[Len(Phases)]
               /\ status' = "completed"
               /\ fraud_analysis' # <<>>]_vars

\* a run that ended although four validation tools were missing and a
\* registered one raised
C36_Witness ==
    /\ agent = "fixed" /\ pc = "returned" /\ status = "completed"
    /\ tools = get_all_tools
    /\ env = RaisingEnv
    /\ Len(all_results) < Cardinality(Elems(validation_tools) \cap tools)
    /\ fraud_analysis # <<>>

\* the step_completed updates on the queue, in order
StepsCompleted == SelectSeq(events, LAMBDA u : u.type = "step_completed")

\* C35: in the streaming fixed-phase agent every step appended to the
\* execution trace is mirrored by exactly one step_completed update, in
\* append order: the step numbers on the stream are 1..N without gaps, and
\* total_steps of analysis_completed is the number of step_completed updates.
C35_EveryStepHasOneStepCompleted ==
    (agent = "fixed" /\ streaming) =>
        /\ \A i \in 1..Len(StepsCompleted) : StepsCompleted[i].step_number = i
        /\ \A i \in 1..Len(events) :
               events[i].type = "analysis_completed" =>
                   events[i].total_steps = Len(StepsCompleted)

\* the last update_models call, seen from the step that made it
LastUpdate == hist'.calls[1].arg

\* the main role was updated by the step: its test passed and the old agent
\* did not get in the way
MainSucceeded == LastUpdate.main = "passed" /\ LastUpdate.old_agent # Raises

MainFailed == LastUpdate.main = "failed" \/
              (LastUpdate.main = "passed" /\ LastUpdate.old_agent = Raises)

AnyFailed == MainFailed \/ LastUpdate.vision = "failed" \/ LastUpdate.summary = "failed"

AnySucceeded ==
    MainSucceeded \/ LastUpdate.vision = "passed" \/ LastUpdate.summary = "passed"

\* C38: update_models changes the model of a role only after the new model
\* passed its test call: when the test call fails, the LLM of the agent, the
\* observer, the thinker and the actor and the configured name stay as they
\* were; after every update the four components share one LLM; and the call
\* raises ValueError exactly when at least one requested update failed and
\* none succeeded.
C38_ModelsChangeOnlyAfterTheTest ==
    [][agent = "models" =>
        /\ LastUpdate.main # "passed" =>
               /\ models'.llm = models.llm /\ models'.observer = models.observer
               /\ models'.thinker = models.thinker /\ models'.actor = models.actor
               /\ models'.openai_model = models.openai_model
        /\ LastUpdate.vision # "passed" => models'.vision_model = models.vision_model
        /\ LastUpdate.summary # "passed" => models'.summary_model = models.summary_model
        /\ models'.llm = models'.observer
        /\ models'.llm = models'.thinker
        /\ models'.llm = models'.actor
        /\ (LastUpdate.result = "ValueError") = (AnyFailed /\ ~AnySucceeded)]_vars

\* two updates of the main role went through, then one call failed for
\* every role it asked for
C38_Witness ==
    /\ agent = "models" /\ models.llm = 2 /\ models.actor = 2
    /\ hist.calls # <<>>
    /\ hist.calls[1].arg.result = "ValueError"
    /\ hist.calls[1].arg.vision = "failed"
    /\ hist.calls[1].arg.summary = "failed"

====
